---- MODULE Spec2Model ----
(***************************************************************************)
(* Authentication core of the INSY7314 payment portal: credential hashing, *)
(* the account lockout guard and the login entry points.                   *)
(*                                                                         *)
(* Two generations of the backend coexist in the repository:               *)
(*   - the controller generation (controllers/paymentController.js login,  *)
(*     scripts/init-db.js) working on a User row with the fields           *)
(*     failedLoginAttempts / accountLockedUntil / password;                *)
(*   - the User.js generation (models/User.js, config/database.js,         *)
(*     routes/auth.js, models/database.js) working on a "users" row with   *)
(*     the fields loginAttempts / lockUntil / salt / passwordHash.         *)
(* Each generation has its own specification over its own row.  A handler  *)
(* is split at its awaits: every action is one continuation of the         *)
(* handler, which JavaScript runs without interleaving.                    *)
(***************************************************************************)
EXTENDS Integers, Sequences, FiniteSets, TLC

VARIABLES
    now,        \* wall clock, in minutes (Date.now(), new Date())
    acct,       \* persisted User row of the controller generation
    pc,         \* position of each in-flight controller login request
    loc,        \* locals of each controller login: loaded instance, input
    resp,       \* last response of each controller login request
    usr,        \* persisted "users" row of the User.js generation
    origin,     \* how usr was created and from which plaintext (never stored)
    upc,        \* position of each in-flight incrementLoginAttempts call
    uloc,       \* the instance incrementLoginAttempts holds in memory
    routeResp,  \* last response of the routes/auth.js endpoints
    secret,     \* process.env.ENCRYPTION_KEY as read when the modules load
    plain,      \* the text last handed to encrypt
    producer,   \* the module whose encrypt was called
    issued,     \* what that encrypt returned
    envelope,   \* the value presented to decrypt
    edits,      \* how many times the value was altered since it was issued
    reader,     \* the module whose decrypt was called
    result,     \* what that decrypt returned
    dbUser,     \* users row written through models/database.js (raw SQLite)
    dbPayment,  \* payments row written through models/database.js
    ormUser,    \* users row written through the Sequelize User model
    ormPayment, \* payments row written through the Sequelize Payment model
    handed,     \* what the last find/get function resolved to its caller
    authReq,    \* the last request that reached a token verification
    authResp,   \* the response to that request
    base,       \* the string the caller of a validator started from
    typed,      \* the string handed to the validator
    altered,    \* whether, and how, one character of base was replaced
    appended,   \* how many characters were appended to base
    verdict,    \* what the last call returned, when it was a validator
    cleaned,    \* what the last call returned, when it was sanitizeInput
    call,       \* the last validation function called, its argument, its caller
    outcome,    \* how that call ended: a returned value or a thrown error
    candidate,  \* the password a client has typed so far
    judged,     \* which password check last ran on it, and what it answered
    visitor,    \* who sends a request: token state and the User row it names
    access,     \* the route last requested and how far the request got
    ledger,     \* the payments table, in insertion order
    listing,    \* the last answer of GET /payments or GET /payments/:id
    millis,     \* Date.now(), in milliseconds
    stored,     \* referenceNumber of every persisted Payment, in insertion order
    creating,   \* the Payment.create calls in flight, after their beforeCreate
    created,    \* how the last Payment.create ended
    deployment, \* process.env of the running server
    secretUse,  \* the last operation that needed a secret, and its key
    people,     \* the User rows the user controller works on, by id
    upd         \* each updateUser request: position, req.user, params, body

vars == <<now, acct, pc, loc, resp, usr, origin, upc, uloc, routeResp,
          secret, plain, producer, issued, envelope, edits, reader, result,
          dbUser, dbPayment, ormUser, ormPayment, handed, authReq, authResp,
          base, typed, altered, appended, verdict, cleaned, call, outcome,
          candidate, judged, visitor, access, ledger, listing,
          millis, stored, creating, created, deployment, secretUse,
          people, upd>>
ctrlVars == <<acct, pc, loc, resp>>
userVars == <<usr, origin, upc, uloc, routeResp>>
authVars == <<now, ctrlVars, userVars>>
cipherVars == <<secret, plain, producer, issued, envelope, edits, reader, result>>
storeVars == <<dbUser, dbPayment, ormUser, ormPayment, handed>>
tokenVars == <<authReq, authResp>>
validatorVars == <<base, typed, altered, appended, verdict, cleaned>>
callVars == <<call, outcome>>
passwordVars == <<candidate, judged>>
accessVars == <<visitor, access>>
ledgerVars == <<ledger, listing>>
referenceVars == <<millis, stored, creating, created>>
deployVars == <<deployment, secretUse>>
peopleVars == <<people, upd>>
lateVars == <<callVars, passwordVars, accessVars, ledgerVars, referenceVars,
              deployVars, peopleVars>>
dataVars == <<cipherVars, storeVars, tokenVars, validatorVars, lateVars>>
nonCipherVars == <<authVars, storeVars, tokenVars, validatorVars, lateVars>>
nonStoreVars == <<authVars, plain, producer, issued, envelope, edits, reader, result,
                  tokenVars, validatorVars, lateVars>>
nonTokenVars == <<authVars, cipherVars, storeVars, validatorVars, lateVars>>
nonValidatorVars == <<authVars, cipherVars, storeVars, tokenVars, lateVars>>
earlyVars == <<authVars, cipherVars, storeVars, tokenVars, validatorVars>>
nonCallVars == <<earlyVars, passwordVars, accessVars, ledgerVars, referenceVars,
    deployVars, peopleVars>>
nonPasswordVars == <<earlyVars, callVars, accessVars, ledgerVars, referenceVars,
    deployVars, peopleVars>>
nonAccessVars == <<earlyVars, callVars, passwordVars, ledgerVars, referenceVars,
    deployVars, peopleVars>>
nonLedgerVars == <<earlyVars, callVars, passwordVars, accessVars, referenceVars,
    deployVars, peopleVars>>
nonDeployVars ==
    <<earlyVars, callVars, passwordVars, accessVars, ledgerVars, referenceVars,
      peopleVars>>
nonPeopleVars ==
    <<earlyVars, callVars, passwordVars, accessVars, ledgerVars, referenceVars,
      deployVars>>
nonReferenceVars == <<earlyVars, callVars, passwordVars, accessVars, ledgerVars,
    deployVars, peopleVars>>

----------------------------------------------------------------------------
(* Bounds of the model *)

MaxTime == 60
MaxAttempts == 7
TickMinutes == {15}
Procs == {"r1", "r2"}
Passwords == {<<"Test@Password123">>, <<"wrongpassword">>}

----------------------------------------------------------------------------
(* Program constants *)

Null == -1
LOCK_THRESHOLD == 5
LOGIN_LOCK_MINUTES == 30
INCREMENT_LOCK_MINUTES == 15
SALT_ROUNDS == 12
MODEL_SALT_ROUNDS == 10
ROUTE_SALT_ROUNDS == 12
SEED_SALT_ROUNDS == 12
REQUIRED_SALT_ROUNDS == 12

----------------------------------------------------------------------------
(* bcrypt: a salt carries its cost factor; the digest is a function of the *)
(* data and the salt and embeds the salt, so compare() can recompute it.   *)

Salts == {"$2b$10$a", "$2b$10$b", "$2b$12$a", "$2b$12$b"}

Cost(salt) ==
    CASE salt \in {"$2b$10$a", "$2b$10$b"} -> 10
      [] salt \in {"$2b$12$a", "$2b$12$b"} -> 12

GenSalt(rounds) == {s \in Salts : Cost(s) = rounds}

BcryptHash(data, salt) == <<salt>> \o data

Missing == <<>>

HashCost(hash) == Cost(Head(hash))

\* bcrypt.compare(data, hash): rejects when an argument is missing
BcryptCompare(data, hash) ==
    IF hash = Missing THEN "error"
    ELSE IF BcryptHash(data, Head(hash)) = hash THEN "true" ELSE "false"

----------------------------------------------------------------------------
(* Controller generation: scripts/init-db.js and the login handler *)

NoAccount ==
    [exists |-> FALSE, password |-> Missing,
     failedLoginAttempts |-> 0, accountLockedUntil |-> Null]

NoLocals == [user |-> NoAccount, password |-> Missing, lockUntil |-> Null]

Resp(status, token, isMatch) ==
    [status |-> status, token |-> token, isMatch |-> isMatch]

NoResp == Resp(0, FALSE, "none")

AllIdle == (\A p \in Procs : pc[p] = "idle") /\ (\A p \in Procs : upc[p] = "idle")

\* createAdminUser: bcrypt.hash(ADMIN_PASSWORD, 12), then User.create
CreateAdminUser(pw, salt) ==
    /\ ~acct.exists
    /\ salt \in GenSalt(SEED_SALT_ROUNDS)
    /\ acct' = [exists |-> TRUE, password |-> BcryptHash(pw, salt),
                failedLoginAttempts |-> 0, accountLockedUntil |-> Null]
    /\ UNCHANGED <<now, pc, loc, resp>>
    /\ UNCHANGED userVars
    /\ UNCHANGED dataVars

\* user.accountLockedUntil && user.accountLockedUntil > new Date()
AccountLocked(user, t) ==
    user.accountLockedUntil # Null /\ user.accountLockedUntil > t

\* user.isValidPassword(password): verify(password, digest)
IsValidPassword(user, password) == BcryptCompare(password, user.password)

\* user.failedLoginAttempts + 1 >= 5, on the instance as it was loaded
ReachesThreshold(user) == user.failedLoginAttempts + 1 >= LOCK_THRESHOLD

\* a lock that has already run out when it is written
LoginLockUntilNow(t) == t

\* new Date(Date.now() + 30 * 60 * 1000)
LoginLockUntil(t) == t + LOGIN_LOCK_MINUTES

\* user.update({ accountLockedUntil: lockUntil, failedLoginAttempts: 0 })
LockUpdate(row, lockUntil) ==
    [row EXCEPT !.accountLockedUntil = lockUntil, !.failedLoginAttempts = 0]

\* if (user.failedLoginAttempts > 0), on the instance as it was loaded
NeedsReset(user) == user.failedLoginAttempts > 0

\* a reset that forgets the lock-expiry
ResetUpdateCounterOnly(row) == [row EXCEPT !.failedLoginAttempts = 0]

\* user.update({ failedLoginAttempts: 0, accountLockedUntil: null })
ResetUpdate(row) ==
    [row EXCEPT !.failedLoginAttempts = 0, !.accountLockedUntil = Null]

\* a catch block that lets the request through
LoginCatchAsValid(isMatch) == Resp(200, TRUE, isMatch)

\* catch (error) { res.status(500).json(...) }
LoginCatch(isMatch) == Resp(500, FALSE, isMatch)

\* User.findOne, the !user branch and the lock check
LoginFind(p, password) ==
    /\ pc[p] = "idle"
    /\ IF ~acct.exists
         THEN /\ resp' = [resp EXCEPT ![p] = Resp(401, FALSE, "none")]
              /\ UNCHANGED <<pc, loc>>
       ELSE IF AccountLocked(acct, now)
         THEN /\ resp' = [resp EXCEPT ![p] = Resp(403, FALSE, "none")]
              /\ UNCHANGED <<pc, loc>>
       ELSE /\ pc' = [pc EXCEPT ![p] = "password"]
            /\ loc' = [loc EXCEPT ![p] =
                         [user |-> acct, password |-> password, lockUntil |-> Null]]
            /\ resp' = [resp EXCEPT ![p] = NoResp]
    /\ UNCHANGED <<now, acct>>
    /\ UNCHANGED userVars
    /\ UNCHANGED dataVars

\* isValidPassword rejects (hashing infrastructure failure, missing digest)
LoginVerifyThrows(p, fault) ==
    /\ pc[p] = "password"
    /\ fault \/ IsValidPassword(loc[p].user, loc[p].password) = "error"
    /\ pc' = [pc EXCEPT ![p] = "idle"]
    /\ loc' = [loc EXCEPT ![p] = NoLocals]
    /\ resp' = [resp EXCEPT ![p] = LoginCatch("error")]
    /\ UNCHANGED <<now, acct>>
    /\ UNCHANGED userVars
    /\ UNCHANGED dataVars

\* !isMatch: user.increment('failedLoginAttempts') is one UPDATE ... SET
\* failedLoginAttempts = failedLoginAttempts + 1; the instance is not reloaded
LoginFail(p) ==
    /\ pc[p] = "password"
    /\ IsValidPassword(loc[p].user, loc[p].password) = "false"
    /\ acct' = [acct EXCEPT !.failedLoginAttempts = @ + 1]
    /\ IF ReachesThreshold(loc[p].user)
         THEN /\ pc' = [pc EXCEPT ![p] = "lock"]
              /\ loc' = [loc EXCEPT ![p].lockUntil = LoginLockUntil(now)]
              /\ UNCHANGED resp
         ELSE /\ pc' = [pc EXCEPT ![p] = "idle"]
              /\ loc' = [loc EXCEPT ![p] = NoLocals]
              /\ resp' = [resp EXCEPT ![p] = Resp(401, FALSE, "false")]
    /\ UNCHANGED now
    /\ UNCHANGED userVars
    /\ UNCHANGED dataVars

\* the update that locks the account, then the 403 response
LoginLock(p) ==
    /\ pc[p] = "lock"
    /\ acct' = LockUpdate(acct, loc[p].lockUntil)
    /\ pc' = [pc EXCEPT ![p] = "idle"]
    /\ loc' = [loc EXCEPT ![p] = NoLocals]
    /\ resp' = [resp EXCEPT ![p] = Resp(403, FALSE, "false")]
    /\ UNCHANGED now
    /\ UNCHANGED userVars
    /\ UNCHANGED dataVars

\* isMatch with failedLoginAttempts > 0: the update that resets the counter
LoginReset(p) ==
    /\ pc[p] = "password"
    /\ IsValidPassword(loc[p].user, loc[p].password) = "true"
    /\ NeedsReset(loc[p].user)
    /\ acct' = ResetUpdate(acct)
    /\ pc' = [pc EXCEPT ![p] = "lastLogin"]
    /\ UNCHANGED <<now, loc, resp>>
    /\ UNCHANGED userVars
    /\ UNCHANGED dataVars

\* user.update({ lastLogin }), generateToken, setTokenCookie, res.json
LoginFinish(p) ==
    /\ \/ pc[p] = "lastLogin"
       \/ /\ pc[p] = "password"
          /\ IsValidPassword(loc[p].user, loc[p].password) = "true"
          /\ ~NeedsReset(loc[p].user)
    /\ pc' = [pc EXCEPT ![p] = "idle"]
    /\ loc' = [loc EXCEPT ![p] = NoLocals]
    /\ resp' = [resp EXCEPT ![p] = Resp(200, TRUE, "true")]
    /\ UNCHANGED <<now, acct>>
    /\ UNCHANGED userVars
    /\ UNCHANGED dataVars

\* time passes between requests; a request completes within one clock unit
Tick(d) ==
    /\ AllIdle
    /\ now + d <= MaxTime
    /\ now' = now + d
    /\ UNCHANGED ctrlVars
    /\ UNCHANGED userVars
    /\ UNCHANGED dataVars

----------------------------------------------------------------------------
(* User.js generation: models/User.js, config/database.js, routes/auth.js *)

NoSalt == ""

NoUser ==
    [exists |-> FALSE, salt |-> NoSalt, passwordHash |-> Missing,
     loginAttempts |-> 0, lockUntil |-> Null]

NoOrigin == [via |-> "none", password |-> Missing]

NoInstance == [loginAttempts |-> 0, lockUntil |-> Null, locks |-> FALSE]

\* a beforeCreate hook: if (user.changed('passwordHash')) { salt; hash }
BeforeCreate(user, salt) ==
    [user EXCEPT !.salt = salt, !.passwordHash = BcryptHash(@, salt)]

\* the hooks User.create runs: hooks.beforeCreate of the options, then the
\* one added by User.beforeCreate(...); each draws its own salt
RunCreateHooks(user, s1, s2) == BeforeCreate(BeforeCreate(user, s1), s2)

\* User.create({ passwordHash: <plaintext>, ... }) through the model
ModelCreate(pw, s1, s2) ==
    /\ ~usr.exists
    /\ s1 \in GenSalt(MODEL_SALT_ROUNDS)
    /\ s2 \in GenSalt(MODEL_SALT_ROUNDS)
    /\ usr' = RunCreateHooks([exists |-> TRUE, salt |-> NoSalt, passwordHash |-> pw,
                              loginAttempts |-> 0, lockUntil |-> Null], s1, s2)
    /\ origin' = [via |-> "model", password |-> pw]
    /\ UNCHANGED <<now, upc, uloc, routeResp>>
    /\ UNCHANGED ctrlVars
    /\ UNCHANGED dataVars

\* User.prototype.verifyPassword: bcrypt.hash(password, this.salt) === this.passwordHash
VerifyPasswordModel(user, password) ==
    IF user.salt = NoSalt THEN "error"
    ELSE IF BcryptHash(password, user.salt) = user.passwordHash THEN "true" ELSE "false"

\* User.prototype.isLocked
IsLocked(user, t) == user.lockUntil # Null /\ user.lockUntil > t

\* hashPassword / verifyPassword of the security utilities
HashPassword(password, salt) == BcryptHash(password, salt)

VerifyPassword(password, hash) == BcryptCompare(password, hash)

\* POST /register: 409 for a taken username, else bcrypt with saltRounds,
\* createUser and a token
RouteRegister(pw, salt) ==
    /\ salt \in GenSalt(ROUTE_SALT_ROUNDS)
    /\ IF usr.exists
         THEN /\ routeResp' = Resp(409, FALSE, "none")
              /\ UNCHANGED <<usr, origin>>
         ELSE /\ usr' = [exists |-> TRUE, salt |-> salt,
                         passwordHash |-> BcryptHash(pw, salt),
                         loginAttempts |-> 0, lockUntil |-> Null]
              /\ origin' = [via |-> "route", password |-> pw]
              /\ routeResp' = Resp(201, TRUE, "none")
    /\ UNCHANGED <<now, upc, uloc>>
    /\ UNCHANGED ctrlVars
    /\ UNCHANGED dataVars

\* catch (error) { res.status(500).json({ error: 'Internal server error' }) }
RouteCatch(isMatch) == Resp(500, FALSE, isMatch)

\* the response of POST /login for the row findUserByUsername returned
RouteLoginResponse(user, accountOk, password, fault) ==
    IF ~user.exists THEN Resp(401, FALSE, "none")
    ELSE IF ~accountOk THEN Resp(401, FALSE, "none")
    ELSE IF fault \/ BcryptCompare(password, user.passwordHash) = "error"
      THEN RouteCatch("error")
    ELSE IF BcryptCompare(password, user.passwordHash) = "false"
      THEN Resp(401, FALSE, "false")
    ELSE Resp(200, TRUE, "true")

\* POST /login of routes/auth.js; it reads the row and writes nothing
RouteLogin(password, accountOk, fault) ==
    /\ routeResp' = RouteLoginResponse(usr, accountOk, password, fault)
    /\ routeResp' # routeResp
    /\ UNCHANGED <<now, usr, origin, upc, uloc>>
    /\ UNCHANGED ctrlVars
    /\ UNCHANGED dataVars

\* minutes of the lock incrementLoginAttempts sets
IncrementLockUntil(t) == t + INCREMENT_LOCK_MINUTES

\* the instance after the two assignments of incrementLoginAttempts
Incremented(user, t) ==
    [loginAttempts |-> user.loginAttempts + 1,
     lockUntil |-> IF user.loginAttempts + 1 >= LOCK_THRESHOLD
                     THEN IncrementLockUntil(t) ELSE user.lockUntil,
     locks |-> user.loginAttempts + 1 >= LOCK_THRESHOLD]

\* incrementLoginAttempts up to its save: findByPk and the assignments
IncrementFind(p) ==
    /\ upc[p] = "idle"
    /\ usr.exists
    /\ usr.loginAttempts < MaxAttempts
    /\ uloc' = [uloc EXCEPT ![p] = Incremented(usr, now)]
    /\ upc' = [upc EXCEPT ![p] = "save"]
    /\ UNCHANGED <<now, usr, origin, routeResp>>
    /\ UNCHANGED ctrlVars
    /\ UNCHANGED dataVars

\* user.save(): writes the fields the instance changed
IncrementSave(p) ==
    /\ upc[p] = "save"
    /\ usr' = [usr EXCEPT !.loginAttempts = uloc[p].loginAttempts,
                          !.lockUntil = IF uloc[p].locks THEN uloc[p].lockUntil ELSE @]
    /\ upc' = [upc EXCEPT ![p] = "idle"]
    /\ uloc' = [uloc EXCEPT ![p] = NoInstance]
    /\ UNCHANGED <<now, origin, routeResp>>
    /\ UNCHANGED ctrlVars
    /\ UNCHANGED dataVars

\* User.update({ loginAttempts: 0, lockUntil: null }, { where: { id } })
ResetRow(row) == [row EXCEPT !.loginAttempts = 0, !.lockUntil = Null]

ResetLoginAttempts ==
    /\ usr.exists
    /\ usr' = ResetRow(usr)
    /\ usr' # usr
    /\ UNCHANGED <<now, origin, upc, uloc, routeResp>>
    /\ UNCHANGED ctrlVars
    /\ UNCHANGED dataVars

----------------------------------------------------------------------------
(* Field cipher: models/database.js, config/database.js, models/Payments.js *)
(*                                                                          *)
(* A JavaScript value is a record [t, s]: t is its type and, for a string,  *)
(* s is the list text.split(':') returns.  Every element of that list is a  *)
(* record of one shape: a piece of ordinary text, or the hex of an iv, of   *)
(* an authentication tag or of a ciphertext.  AES-256-GCM is an ideal AEAD: *)
(* a tag is valid for one key, one AAD, one iv and one ciphertext only.     *)

Modules == {"models/database.js", "config/database.js", "models/Payments.js"}
NoModule == "none"
Unset == "unset"
Secrets == {Unset, "deployment-secret"}
Unloaded == "unloaded"
IVs == {"iv1", "iv2"}
LoneSurrogate == "<U+D800>"
ReplacementChar == "<U+FFFD>"
Plaintexts == {"", "Jane Doe", LoneSurrogate}
MaxEdits == 2

JsNull == [t |-> "null", s |-> <<>>]
JsNumber == [t |-> "number", s |-> <<>>]
NoKey == <<>>

Part(kind, key, aad, iv, text) ==
    [kind |-> kind, key |-> key, aad |-> aad, iv |-> iv, text |-> text,
     delta |-> ""]

TextPart(x) == Part("text", NoKey, "", "", x)

\* a string without a colon
Str(x) == [t |-> "string", s |-> <<TextPart(x)>>]

\* iv + ':' + authTag + ':' + encrypted
Join(ivHex, tagHex, dataHex) == [t |-> "string", s |-> <<ivHex, tagHex, dataHex>>]

\* !text
Falsy(v) == v.t = "null" \/ v = Str("")

\* process.env.ENCRYPTION_KEY || '<default of the module>'
DefaultSecret(m) ==
    CASE m = "models/database.js" -> "default-key-change-in-production"
      [] m = "config/database.js" -> "MySuperSecret32ByteKey1234567890"
      [] m = "models/Payments.js" -> "change-me-32-chars-1234567890abc"

EncryptionKey(m, env) == IF env = Unset THEN DefaultSecret(m) ELSE env

\* crypto.createHash('sha256').update(ENCRYPTION_KEY).digest()
GetKey(m, env) == <<"sha256", EncryptionKey(m, env)>>

\* cipher.setAAD(Buffer.from(...))
AAD(m) ==
    CASE m = "models/database.js" -> "payment-system"
      [] m = "config/database.js" -> "pay"
      [] m = "models/Payments.js" -> "payment-system"

\* cipher.update(text, 'utf8', ...): an unpaired surrogate is encoded as U+FFFD
Utf8Encode(x) == IF x = LoneSurrogate THEN ReplacementChar ELSE x

\* decipher.update(..., 'utf8'): the bytes cipher.update received, decoded
Utf8Decode(bytes) == bytes

\* encrypt(text) of module m, with the iv crypto.randomBytes(16) returned
Encrypt(m, env, text, iv) ==
    IF Falsy(text) THEN JsNull
    ELSE Join(Part("iv", NoKey, "", iv, ""),
              Part("tag", GetKey(m, env), AAD(m), iv, Utf8Encode(text.s[1].text)),
              Part("data", GetKey(m, env), "", iv, Utf8Encode(text.s[1].text)))

\* createDecipheriv / setAuthTag / setAAD / update / final: final() throws
\* unless the tag authenticates key, AAD, iv and ciphertext
GcmOpens(key, aad, ivHex, tagHex, dataHex) ==
    /\ ivHex.kind = "iv" /\ tagHex.kind = "tag" /\ dataHex.kind = "data"
    /\ ivHex.delta = "" /\ tagHex.delta = "" /\ dataHex.delta = ""
    /\ tagHex.key = key /\ tagHex.aad = aad /\ tagHex.iv = ivHex.iv
    /\ dataHex.key = key /\ dataHex.iv = ivHex.iv
    /\ dataHex.text = tagHex.text

\* the try block of decrypt on the list text.split(':') returned; a missing
\* element is undefined and Buffer.from(undefined, 'hex') throws
TryDecrypt(m, env, parts) ==
    IF Len(parts) < 3 THEN JsNull
    ELSE IF GcmOpens(GetKey(m, env), AAD(m), parts[1], parts[2], parts[3])
         THEN Str(Utf8Decode(parts[3].text))
         ELSE JsNull

\* if (parts.length !== 3) return null     (models/database.js only)
HasPartCountCheck(m) == m = "models/database.js"

\* decrypt(v) of module m; v.split is not a function when v is not a string
Decrypt(m, env, v) ==
    IF Falsy(v) THEN JsNull
    ELSE IF v.t # "string" THEN JsNull
    ELSE IF HasPartCountCheck(m) /\ Len(v.s) # 3 THEN JsNull
    ELSE TryDecrypt(m, env, v.s)

\* the modules read process.env.ENCRYPTION_KEY once, when they are loaded
LoadModules(env) ==
    /\ secret = Unloaded
    /\ secret' = env
    /\ UNCHANGED <<plain, producer, issued, envelope, edits, reader, result>>
    /\ UNCHANGED nonCipherVars

CallEncrypt(m, x, iv) ==
    /\ secret # Unloaded
    /\ plain' = Str(x)
    /\ producer' = m
    /\ issued' = Encrypt(m, secret, Str(x), iv)
    /\ envelope' = issued'
    /\ edits' = 0
    /\ reader' = NoModule
    /\ result' = JsNull
    /\ UNCHANGED secret
    /\ UNCHANGED nonCipherVars

FlipDelta(d) == IF d = "" THEN "flipped" ELSE ""

\* one byte of the i-th part is changed
FlipByte(v, i) == [v EXCEPT !.s[i].delta = FlipDelta(@)]

\* ':part' is appended
AppendPart(v) == [v EXCEPT !.s = Append(@, TextPart("part"))]

\* the last ':'-separated part is cut off
DropPart(v) == [v EXCEPT !.s = SubSeq(@, 1, Len(@) - 1)]

\* the i-th part is replaced by text that is not hex
NonHexPart(v, i) == [v EXCEPT !.s[i] = TextPart("zz")]

Alterations(v) ==
    IF v.t # "string" THEN {JsNumber}
    ELSE {FlipByte(v, i) : i \in 1..Len(v.s)}
         \cup {NonHexPart(v, i) : i \in 1..Len(v.s)}
         \cup {AppendPart(v), JsNumber}
         \cup (IF Len(v.s) > 1 THEN {DropPart(v)} ELSE {})

\* the stored value is altered before it is read back
Alter(v) ==
    /\ producer # NoModule
    /\ edits < MaxEdits
    /\ v \in Alterations(envelope)
    /\ envelope' = v
    /\ edits' = edits + 1
    /\ reader' = NoModule
    /\ result' = JsNull
    /\ UNCHANGED <<secret, plain, producer, issued>>
    /\ UNCHANGED nonCipherVars

CallDecrypt(m) ==
    /\ producer # NoModule
    /\ reader' = m
    /\ result' = Decrypt(m, secret, envelope)
    /\ UNCHANGED <<secret, plain, producer, issued, envelope, edits>>
    /\ UNCHANGED nonCipherVars

----------------------------------------------------------------------------
(* Persistence of the sensitive fields: routes/auth.js and routes/payments.js *)
(* over the raw SQLite functions of models/database.js, and the Sequelize     *)
(* User and Payment models.  One row per table.                               *)

FullNames == {"Jane Doe"}
IdNumbers == {"9001015009087"}
AccountNumbers == {"1234567890"}
\* codes the isValidSwiftCode validator of the Payment model lets through
SwiftCodes == {"ABCDEF12"}
PaymentFields == {"beneficiaryName", "beneficiaryAccount", "swiftCode"}

NoDbUser ==
    [exists |-> FALSE, fullName |-> JsNull, idNumber |-> JsNull,
     accountNumber |-> JsNull]

NoDbPayment ==
    [exists |-> FALSE, beneficiaryAccountNumber |-> JsNull,
     beneficiarySwiftCode |-> JsNull, beneficiaryName |-> JsNull]

NoOrmUser ==
    [exists |-> FALSE, fullName |-> JsNull, idNumber |-> JsNull,
     accountNumber |-> JsNull]

NoOrmPayment ==
    [exists |-> FALSE, beneficiaryName |-> JsNull, beneficiaryAccount |-> JsNull,
     swiftCode |-> JsNull]

NothingHanded ==
    [by |-> "none", fullName |-> JsNull, idNumber |-> JsNull,
     accountNumber |-> JsNull, beneficiaryAccountNumber |-> JsNull,
     beneficiarySwiftCode |-> JsNull, beneficiaryName |-> JsNull,
     userName |-> JsNull]

DbEncrypt(x, iv) == Encrypt("models/database.js", secret, Str(x), iv)
DbDecrypt(v) == Decrypt("models/database.js", secret, v)
OrmEncrypt(v, iv) == Encrypt("config/database.js", secret, v, iv)

\* INSERT INTO users (...) VALUES (...): the values are stored as given
CreateUser(userData) ==
    [exists |-> TRUE, fullName |-> userData.fullName,
     idNumber |-> userData.idNumber, accountNumber |-> userData.accountNumber]

\* router.post('/register'): a second registration of the username is a 409
Register(fullName, idNumber, accountNumber, iv1, iv2, iv3) ==
    /\ secret # Unloaded
    /\ ~dbUser.exists
    /\ dbUser' = CreateUser([fullName |-> DbEncrypt(fullName, iv1),
                             idNumber |-> DbEncrypt(idNumber, iv2),
                             accountNumber |-> DbEncrypt(accountNumber, iv3)])
    /\ UNCHANGED <<secret, dbPayment, ormUser, ormPayment, handed>>
    /\ UNCHANGED nonStoreVars

\* INSERT INTO payments (...) VALUES (...): the values are stored as given
CreatePayment(paymentData) ==
    [exists |-> TRUE,
     beneficiaryAccountNumber |-> paymentData.beneficiaryAccountNumber,
     beneficiarySwiftCode |-> paymentData.beneficiarySwiftCode,
     beneficiaryName |-> paymentData.beneficiaryName]

\* router.post('/') of routes/payments.js, for the authenticated user
PostPayment(account, swift, name, iv1, iv2, iv3) ==
    /\ secret # Unloaded
    /\ dbUser.exists
    /\ dbPayment' = CreatePayment(
          [beneficiaryAccountNumber |-> DbEncrypt(account, iv1),
           beneficiarySwiftCode |-> DbEncrypt(swift, iv2),
           beneficiaryName |-> DbEncrypt(name, iv3)])
    /\ UNCHANGED <<secret, dbUser, ormUser, ormPayment, handed>>
    /\ UNCHANGED nonStoreVars

\* User.create of models/User.js: the hooks hash the password and leave the
\* TEXT columns fullName, idNumber and accountNumber as they were given
OrmUserCreate(fullName, idNumber, accountNumber) ==
    /\ secret # Unloaded
    /\ ~ormUser.exists
    /\ ormUser' = [exists |-> TRUE, fullName |-> Str(fullName),
                   idNumber |-> Str(idNumber),
                   accountNumber |-> Str(accountNumber)]
    /\ UNCHANGED <<secret, dbUser, dbPayment, ormPayment, handed>>
    /\ UNCHANGED nonStoreVars

\* hooks.beforeCreate of the Payment model
PaymentBeforeCreate(p, iv1, iv2) ==
    [p EXCEPT !.beneficiaryName = OrmEncrypt(@, iv1),
              !.beneficiaryAccount = OrmEncrypt(@, iv2)]

\* Payment.create(values)
OrmPaymentCreate(name, account, swift, iv1, iv2) ==
    /\ secret # Unloaded
    /\ ~ormPayment.exists
    /\ ormPayment' = PaymentBeforeCreate(
          [exists |-> TRUE, beneficiaryName |-> Str(name),
           beneficiaryAccount |-> Str(account), swiftCode |-> Str(swift)],
          iv1, iv2)
    /\ UNCHANGED <<secret, dbUser, dbPayment, ormUser, handed>>
    /\ UNCHANGED nonStoreVars

\* hooks.beforeUpdate of the Payment model; changed is p.changed()
PaymentBeforeUpdate(p, changed, iv1, iv2) ==
    [p EXCEPT !.beneficiaryName =
                  IF "beneficiaryName" \in changed THEN OrmEncrypt(@, iv1) ELSE @,
              !.beneficiaryAccount =
                  IF "beneficiaryAccount" \in changed THEN OrmEncrypt(@, iv2) ELSE @]

\* the instance after payment.set(values): changed() is the set of fields
\* whose value differs from the stored one
SetValues(p, values) ==
    [p EXCEPT !.beneficiaryName = IF values.beneficiaryName = JsNull THEN @
                                  ELSE values.beneficiaryName,
              !.beneficiaryAccount = IF values.beneficiaryAccount = JsNull THEN @
                                     ELSE values.beneficiaryAccount,
              !.swiftCode = IF values.swiftCode = JsNull THEN @
                            ELSE values.swiftCode]

Changed(p, q) == {f \in PaymentFields : p[f] # q[f]}

\* payment.update(values)
OrmPaymentUpdate(values, iv1, iv2) ==
    /\ secret # Unloaded
    /\ ormPayment.exists
    /\ ormPayment' = PaymentBeforeUpdate(SetValues(ormPayment, values),
                        Changed(ormPayment, SetValues(ormPayment, values)),
                        iv1, iv2)
    /\ UNCHANGED <<secret, dbUser, dbPayment, ormUser, handed>>
    /\ UNCHANGED nonStoreVars

\* the values of an update: JsNull stands for a field that is not given
UpdateValues ==
    [beneficiaryName : {JsNull, Str("John Smith")},
     beneficiaryAccount : {JsNull, Str("0987654321")},
     swiftCode : {JsNull, Str("ABCDEF12XXX")}]

\* findUserByUsername / findUserById: { ...row, <decrypted fields> }
FoundUser(by, row) ==
    [NothingHanded EXCEPT !.by = by,
                          !.fullName = DbDecrypt(row.fullName),
                          !.idNumber = DbDecrypt(row.idNumber),
                          !.accountNumber = DbDecrypt(row.accountNumber)]

FindUser(by) ==
    /\ secret # Unloaded
    /\ dbUser.exists
    /\ handed' = FoundUser(by, dbUser)
    /\ UNCHANGED <<secret, dbUser, dbPayment, ormUser, ormPayment>>
    /\ UNCHANGED nonStoreVars

\* SELECT p.*, u.fullName as userName ... JOIN users u
JoinedRow(payment, user) ==
    [NothingHanded EXCEPT
        !.beneficiaryAccountNumber = payment.beneficiaryAccountNumber,
        !.beneficiarySwiftCode = payment.beneficiarySwiftCode,
        !.beneficiaryName = payment.beneficiaryName,
        !.userName = user.fullName]

\* rows.map(row => ({ ...row, <decrypted fields> }))
DecryptedRow(row) ==
    [row EXCEPT !.by = "getUserPayments",
                !.beneficiaryAccountNumber = DbDecrypt(@),
                !.beneficiarySwiftCode = DbDecrypt(@),
                !.beneficiaryName = DbDecrypt(@)]

\* getUserPayments(userId), as router.get('/') calls it
GetUserPayments ==
    /\ secret # Unloaded
    /\ dbUser.exists /\ dbPayment.exists
    /\ handed' = DecryptedRow(JoinedRow(dbPayment, dbUser))
    /\ UNCHANGED <<secret, dbUser, dbPayment, ormUser, ormPayment>>
    /\ UNCHANGED nonStoreVars

----------------------------------------------------------------------------
(* Token verification: the authenticate middleware, GET /verify of         *)
(* routes/auth.js and the global error handler.  A request carries a token *)
(* in the Authorization header (Bearer scheme), in the 'token' cookie, in  *)
(* both or in neither.                                                     *)

JWT_SECRET == "JWT_SECRET"
ForgedSecret == "another secret"
TOKEN_TTL_MINUTES == 1440
AdminId == "admin"
Subjects == {AdminId}
EntryPoints == {"authenticate", "/verify", "errorHandler"}

NoToken == [form |-> "none", sub |-> "", key |-> "", exp |-> 0]

\* jwt.sign({ userId }, process.env.JWT_SECRET, { expiresIn: '24h' }) at time t
GenerateToken(userId, t) ==
    [form |-> "jwt", sub |-> userId, key |-> JWT_SECRET,
     exp |-> t + TOKEN_TTL_MINUTES]

\* res.cookie('token', token, cookieOptions)
SetTokenCookie(token) ==
    [name |-> "token", value |-> token, httpOnly |-> TRUE, sameSite |-> "strict"]

NoCookie == [name |-> "token", value |-> NoToken, httpOnly |-> TRUE,
             sameSite |-> "strict"]

\* a string that is not a JWT
Malformed == [form |-> "garbage", sub |-> "", key |-> "", exp |-> 0]

\* a token of the same claims signed with another secret
WronglySigned(token) == [token EXCEPT !.key = ForgedSecret]

\* the tokens a client can present at time t: one issued just now, one issued
\* 24 hours ago, a malformed one and a wrongly signed one
PresentableTokens(t) ==
    UNION {{GenerateToken(u, t), GenerateToken(u, t - TOKEN_TTL_MINUTES),
            WronglySigned(GenerateToken(u, t))} : u \in Subjects}
    \cup {Malformed}

\* jwt.verify(token, secret) at time t: the name of the error it throws
JwtVerify(token, key, t) ==
    IF token.form # "jwt" THEN "JsonWebTokenError"
    ELSE IF token.key # key THEN "JsonWebTokenError"
    ELSE IF t >= token.exp THEN "TokenExpiredError"
    ELSE "ok"

NoRequest == [entry |-> "none", header |-> NoToken, cookie |-> NoCookie]

AuthResp(status, error, user) == [status |-> status, error |-> error, user |-> user]

NoAuthResp == AuthResp(0, "", "")

\* authenticate(req, res, next); status 200 stands for next() with req.user
Authenticate(req, user, t) ==
    IF req.header = NoToken
      THEN AuthResp(401, "Access denied. No token provided.", "")
    ELSE IF JwtVerify(req.header, JWT_SECRET, t) = "TokenExpiredError"
      THEN AuthResp(401, "Session expired. Please log in again.", "")
    ELSE IF JwtVerify(req.header, JWT_SECRET, t) # "ok"
      THEN AuthResp(401, "Invalid token. Please log in again.", "")
    ELSE IF ~(user.exists /\ req.header.sub = AdminId)
      THEN AuthResp(401, "Invalid token. User not found.", "")
    ELSE IF AccountLocked(user, t)
      THEN AuthResp(403, "Account is temporarily locked. Please try again later.", "")
    ELSE AuthResp(200, "", req.header.sub)

\* router.get('/verify')
Verify(req, user, t) ==
    IF req.header = NoToken THEN AuthResp(401, "No token provided", "")
    ELSE IF JwtVerify(req.header, JWT_SECRET, t)
              \in {"JsonWebTokenError", "TokenExpiredError"}
      THEN AuthResp(401, "Invalid or expired token", "")
    ELSE IF ~(user.exists /\ req.header.sub = AdminId)
      THEN AuthResp(401, "User not found", "")
    ELSE AuthResp(200, "", req.header.sub)

\* errorHandler(err, req, res, next) for the error jwt.verify threw
ErrorHandler(name) ==
    IF name = "JsonWebTokenError" THEN AuthResp(401, "Invalid token", "")
    ELSE IF name = "TokenExpiredError" THEN AuthResp(401, "Token expired", "")
    ELSE AuthResp(500, "Internal server error", "")

\* the response of an entry point to a request at time t
Respond(req, t) ==
    CASE req.entry = "authenticate" -> Authenticate(req, acct, t)
      [] req.entry = "/verify" -> Verify(req, usr, t)
      [] req.entry = "errorHandler" ->
            ErrorHandler(JwtVerify(req.header, JWT_SECRET, t))

\* a request reaches an entry point; only an error reaches the error handler
Request(entry, header, cookie) ==
    /\ entry = "errorHandler" => JwtVerify(header, JWT_SECRET, now) # "ok"
    /\ authReq' = [entry |-> entry, header |-> header, cookie |-> cookie]
    /\ authResp' = Respond(authReq', now)
    /\ UNCHANGED nonTokenVars

----------------------------------------------------------------------------
(* What a failed login is answered: status code and JSON body *)

\* the !user branch of the login handler
LoginUnknownAccount ==
    [status |-> 401,
     body |-> [success |-> FALSE, error |-> "Invalid email or password."]]

\* the !isMatch branch of the login handler, for the instance as loaded
LoginWrongPassword(user) ==
    IF ReachesThreshold(user)
      THEN [status |-> 403,
            body |-> [success |-> FALSE,
                      error |-> "Account locked. Too many failed login attempts. Please try again in 30 minutes."]]
      ELSE [status |-> 401,
            body |-> [success |-> FALSE, error |-> "Invalid email or password.",
                      remainingAttempts |-> 5 - (user.failedLoginAttempts + 1)]]

\* the !user and the account number branches of POST /login of routes/auth.js
RouteUnknownAccount == [status |-> 401, body |-> [error |-> "Invalid credentials"]]

\* the !isValidPassword branch of POST /login of routes/auth.js
RouteWrongPassword == [status |-> 401, body |-> [error |-> "Invalid credentials"]]

----------------------------------------------------------------------------
(* Validators: utils/validators.js.  A string is the sequence of its        *)
(* characters.                                                              *)

UpperCase ==
    <<"A", "B", "C", "D", "E", "F", "G", "H", "I", "J", "K", "L", "M",
    "N", "O", "P", "Q", "R", "S", "T", "U", "V", "W", "X", "Y", "Z">>

LowerCase ==
    <<"a", "b", "c", "d", "e", "f", "g", "h", "i", "j", "k", "l", "m",
    "n", "o", "p", "q", "r", "s", "t", "u", "v", "w", "x", "y", "z">>

Digits == <<"0", "1", "2", "3", "4", "5", "6", "7", "8", "9">>

MaxTyped == 3

IsIn(chars, c) == \E i \in 1..Len(chars) : chars[i] = c

IndexIn(chars, c) == CHOOSE i \in 1..Len(chars) : chars[i] = c

IsUpper(c) == IsIn(UpperCase, c)
IsLower(c) == IsIn(LowerCase, c)
IsDigit(c) == IsIn(Digits, c)
IsSpace(c) == c = " "

\* String.prototype.toUpperCase, one character
ToUpperCase(c) == IF IsLower(c) THEN UpperCase[IndexIn(LowerCase, c)] ELSE c

\* the six replace() calls of sanitizeInput, one character
EscapeChar(c) ==
    CASE c = "&" -> <<"&", "a", "m", "p", ";">>
      [] c = "<" -> <<"&", "l", "t", ";">>
      [] c = ">" -> <<"&", "g", "t", ";">>
      [] c = "\"" -> <<"&", "q", "u", "o", "t", ";">>
      [] c = "'" -> <<"&", "#", "x", "2", "7", ";">>
      [] c = "/" -> <<"&", "#", "x", "2", "F", ";">>
      [] OTHER -> <<c>>

\* the escaped string, character by character
Escape(s) ==
    LET esc[i \in 0..Len(s)] ==
            IF i = 0 THEN <<>> ELSE esc[i - 1] \o EscapeChar(s[i])
    IN  esc[Len(s)]

\* String.prototype.trim
Trim(s) ==
    LET kept == {i \in 1..Len(s) : ~IsSpace(s[i])}
    IN  IF kept = {} THEN <<>>
        ELSE SubSeq(s, CHOOSE i \in kept : \A j \in kept : i <= j,
                       CHOOSE i \in kept : \A j \in kept : i >= j)

ToUpperCaseAll(s) == [i \in 1..Len(s) |-> ToUpperCase(s[i])]

\* String.prototype.toLowerCase
ToLowerCaseAll(s) ==
    [i \in 1..Len(s) |->
        IF IsUpper(s[i]) THEN LowerCase[IndexIn(UpperCase, s[i])] ELSE s[i]]

IsAlphanumeric(c) == IsUpper(c) \/ IsDigit(c)
IsNotSpace(c) == ~IsSpace(c)

\* sanitizeInput(input, type) for a string input
SanitizeInput(input, type) ==
    CASE type = "email" -> ToLowerCaseAll(Trim(Escape(input)))
      [] type = "accountNumber" -> SelectSeq(Trim(Escape(input)), IsDigit)
      [] type = "swiftCode" ->
            SelectSeq(ToUpperCaseAll(Trim(Escape(input))), IsAlphanumeric)
      [] type = "iban" ->
            SelectSeq(ToUpperCaseAll(Trim(Escape(input))), IsNotSpace)
      [] OTHER -> Trim(Escape(input))

\* /^[A-Z]{6}[A-Z0-9]{2}([A-Z0-9]{3})?$/.test(s)
SwiftPattern(s) ==
    /\ Len(s) \in {8, 11}
    /\ \A i \in 1..6 : IsUpper(s[i])
    /\ \A i \in 7..Len(s) : IsAlphanumeric(s[i])

\* validateSwiftCode(swiftCode)
ValidateSwiftCode(swiftCode) ==
    IF swiftCode = <<>> THEN FALSE
    ELSE SwiftPattern(SanitizeInput(swiftCode, "swiftCode"))

\* /^[A-Z]{2}\d{2}[A-Z0-9]{1,30}$/.test(s)
IbanPattern(s) ==
    /\ Len(s) \in 5..34
    /\ IsUpper(s[1]) /\ IsUpper(s[2])
    /\ IsDigit(s[3]) /\ IsDigit(s[4])
    /\ \A i \in 5..Len(s) : IsAlphanumeric(s[i])

\* `${sanitized.substring(4)}${sanitized.substring(0, 4)}`
Rearranged(s) == SubSeq(s, 5, Len(s)) \o SubSeq(s, 1, 4)

\* char.charCodeAt(0) of a character of the rearranged string
CharCode(c) ==
    IF IsUpper(c) THEN 64 + IndexIn(UpperCase, c)
    ELSE IF IsDigit(c) THEN 47 + IndexIn(Digits, c)
    ELSE 0

DigitValue(d) == IndexIn(Digits, d) - 1

\* Number.prototype.toString of a natural number
RECURSIVE NumberToString(_)
NumberToString(n) ==
    IF n < 10 THEN <<Digits[n + 1]>>
    ELSE Append(NumberToString(n \div 10), Digits[(n % 10) + 1])

\* parseInt(digits, 10) of a non-empty string of digits
RECURSIVE ParseInt(_)
ParseInt(ds) ==
    IF ds = <<>> THEN 0
    ELSE ParseInt(SubSeq(ds, 1, Len(ds) - 1)) * 10 + DigitValue(ds[Len(ds)])

\* a substitution that counts the letters from 1
LetterValueFromOne(c) == CharCode(c) - 64

\* (code - 55): A = 10, ..., Z = 35
LetterValue(c) == CharCode(c) - 55

\* the loop that builds numeric
Numeric(s) ==
    LET num[i \in 0..Len(s)] ==
            IF i = 0 THEN <<>>
            ELSE IF IsUpper(s[i])
              THEN num[i - 1] \o NumberToString(LetterValue(s[i]))
            ELSE Append(num[i - 1], s[i])
    IN  num[Len(s)]

\* the loop over the digits: remainder = (parseInt(remainder + digit) % 97),
\* kept as a string and starting from the empty string
Mod97(numeric) ==
    LET remainder[i \in 0..Len(numeric)] ==
            IF i = 0 THEN <<>>
            ELSE CHOOSE next \in
                   {NumberToString(ParseInt(current) % 97) :
                      current \in {Append(remainder[i - 1], numeric[i])}} : TRUE
    IN  remainder[Len(numeric)]

\* validateIban(iban)
ValidateIban(iban) ==
    /\ iban # <<>>
    /\ \E sanitized \in {SanitizeInput(iban, "iban")} :
          /\ IbanPattern(sanitized)
          /\ \E numeric \in {Numeric(Rearranged(sanitized))} :
                ParseInt(Mod97(numeric)) = 1

\* /^\d{13}$/
IdPattern(s) == Len(s) = 13 /\ \A i \in 1..13 : IsDigit(s[i])

\* a doubling of the other half of the positions
DoubledOdd(i) == i % 2 = 1

\* (i % 2 === 0), i counted from 0
Doubled(i) == i % 2 = 0

\* digit *= 2; if (digit > 9) digit = (digit % 10) + Math.floor(digit / 10)
DoubleAndFold(digit) ==
    IF digit * 2 > 9 THEN ((digit * 2) % 10) + ((digit * 2) \div 10)
    ELSE digit * 2

\* the loop over i = 0..11; digits[i] of the code is s[i + 1] here
LuhnSum(s) ==
    LET sum[n \in 0..12] ==
            IF n = 0 THEN 0
            ELSE sum[n - 1]
                   + (IF Doubled(n - 1) THEN DoubleAndFold(DigitValue(s[n]))
                      ELSE DigitValue(s[n]))
    IN  sum[12]

ValidateIdNumber(idNumber) ==
    /\ idNumber # <<>>
    /\ IdPattern(idNumber)
    /\ (10 - (LuhnSum(idNumber) % 10)) % 10 = DigitValue(idNumber[13])

IdSamples ==
    {<<"8", "0", "0", "1", "0", "1", "5", "0", "0", "9", "0", "8", "3">>,
     <<"8", "0", "0", "1", "0", "1", "5", "0", "0", "9", "0", "2", "9">>,
     <<"8", "0", "0", "1", "0", "1", "5", "0", "0", "9", "0", "8", "7">>,
     <<"0", "0", "0", "0", "0", "0", "0", "0", "0", "0", "0", "0", "0">>,
     <<"8", "0", "0", "1", "0", "1", "5", "0", "0", "9", "0", "8">>}

SwiftSamples ==
    {<<"A", "B", "C", "D", "E", "F", "1", "2">>,
     <<"A", "B", "C", "D", "E", "F", "1", "2", "X", "X", "X">>,
     <<"a", "b", "c", "d", "e", "f", "1", "2">>,
     <<"A", "B", "C", "D", "E", "F", "1">>,
     <<"A", "B", "C", "D", "E", "&">>,
     <<>>}

IbanSamples ==
    {<<"G", "B", "8", "8", "1">>,
     <<"G", "B", "9", "2", "1", "2", "3">>,
     <<"G", "B", "8", "2", "W", "E", "S", "T", "1", "2", "3", "4", "5",
       "6", "9", "8", "7", "6", "5", "4", "3", "2">>,
     <<"g", "b", "8", "2", "w", "e", "s", "t", "1", "2", "3", "4", "5",
       "6", "9", "8", "7", "6", "5", "4", "3", "2">>,
     <<"G", "B", "8", "2", " ", "W", "E", "S", "T", " ", "1", "2", "3",
       "4", " ", "5", "6", "9", "8", " ", "7", "6", "5", "4", " ",
       "3", "2">>,
     <<"G", "B", "5", "0", "W", "E", "S", "T", "1", "2", "3", "4", "5",
       "6", "9", "8", "7", "6", "5", "4", "3", "2", "0", "0", "0",
       "0", "0", "0", "0", "0", "0", "0">>,
     <<"G", "B", "1", "8", "0", "0", "0", "0", "0", "0", "0", "0", "0",
       "0", "0", "0", "0", "0", "0", "0", "0", "0", "0", "0", "0",
       "0", "0", "0", "0", "0", "0", "0", "0", "0">>}

Samples == SwiftSamples \cup IbanSamples \cup IdSamples

Alphabet ==
    {Digits[i] : i \in 1..10} \cup {"A", "Z", "a", "z", " ", "&", "-", "<", "'"}

TypedChars == {"0", "7", " "}

NoVerdict == [fn |-> "none", accepted |-> FALSE]
NoSanitized == [type |-> "none", out |-> <<>>]
SanitizedTypes == {"email", "accountNumber", "swiftCode"}

\* the caller picks the string it will submit
Start(s) ==
    /\ base' = s
    /\ typed' = s
    /\ altered' = "no"
    /\ appended' = 0
    /\ verdict' = NoVerdict
    /\ cleaned' = NoSanitized
    /\ UNCHANGED nonValidatorVars

\* one character of the string is replaced by another one
AlterChar(i, c) ==
    /\ altered = "no" /\ appended = 0
    /\ i \in 1..Len(typed)
    /\ typed[i] # c
    /\ typed' = [typed EXCEPT ![i] = c]
    /\ altered' = IF IsDigit(typed[i]) /\ IsDigit(c) THEN "digit" ELSE "other"
    /\ verdict' = NoVerdict
    /\ cleaned' = NoSanitized
    /\ UNCHANGED <<base, appended>>
    /\ UNCHANGED nonValidatorVars

\* one more character is appended to the string
TypeChar(c) ==
    /\ altered = "no" /\ appended < MaxTyped
    /\ typed' = Append(typed, c)
    /\ appended' = appended + 1
    /\ verdict' = NoVerdict
    /\ cleaned' = NoSanitized
    /\ UNCHANGED <<base, altered>>
    /\ UNCHANGED nonValidatorVars

\* the last digit of the string is replaced by (digit + 1) mod 10
IncrementLastDigit ==
    /\ altered = "no" /\ appended = 0
    /\ typed # <<>> /\ IsDigit(typed[Len(typed)])
    /\ typed' = [typed EXCEPT ![Len(typed)] =
                   Digits[((DigitValue(typed[Len(typed)]) + 1) % 10) + 1]]
    /\ altered' = "last"
    /\ verdict' = NoVerdict
    /\ cleaned' = NoSanitized
    /\ UNCHANGED <<base, appended>>
    /\ UNCHANGED nonValidatorVars

CallSanitizeInput(type) ==
    /\ cleaned' = [type |-> type, out |-> SanitizeInput(typed, type)]
    /\ verdict' = NoVerdict
    /\ UNCHANGED <<base, typed, altered, appended>>
    /\ UNCHANGED nonValidatorVars

CallValidateIdNumber ==
    /\ verdict' = [fn |-> "validateIdNumber", accepted |-> ValidateIdNumber(typed)]
    /\ cleaned' = NoSanitized
    /\ UNCHANGED <<base, typed, altered, appended>>
    /\ UNCHANGED nonValidatorVars

CallValidateSwiftCode ==
    /\ verdict' = [fn |-> "validateSwiftCode", accepted |-> ValidateSwiftCode(typed)]
    /\ cleaned' = NoSanitized
    /\ UNCHANGED <<base, typed, altered, appended>>
    /\ UNCHANGED nonValidatorVars

CallValidateIban ==
    /\ verdict' = [fn |-> "validateIban", accepted |-> ValidateIban(typed)]
    /\ cleaned' = NoSanitized
    /\ UNCHANGED <<base, typed, altered, appended>>
    /\ UNCHANGED nonValidatorVars

----------------------------------------------------------------------------
(* Totality of the validation functions: utils/validators.js, the password *)
(* strength check of the security utilities, and the modules that import   *)
(* them.  A JavaScript value is a record [t, text]: its type and what       *)
(* String(value) gives.                                                     *)

ObjectText ==
    <<"[", "o", "b", "j", "e", "c", "t", " ", "O", "b", "j", "e", "c", "t", "]">>

IbanText ==
    <<"G", "B", "8", "2", "W", "E", "S", "T", "1", "2", "3", "4", "5", "6",
      "9", "8", "7", "6", "5", "4", "3", "2">>

JsValues ==
    {[t |-> "null", text |-> <<"n", "u", "l", "l">>],
     [t |-> "undefined", text |-> <<"u", "n", "d", "e", "f", "i", "n", "e", "d">>],
     [t |-> "number", text |-> <<"5">>],
     [t |-> "object", text |-> ObjectText],
     [t |-> "array", text |-> IbanText],
     [t |-> "string", text |-> <<>>],
     [t |-> "string", text |-> <<"Z", "A">>],
     [t |-> "string", text |-> <<"1", "0", "0">>],
     [t |-> "string", text |-> IbanText]}

\* !value is false
Truthy(v) ==
    CASE v.t \in {"null", "undefined"} -> FALSE
      [] v.t = "string" -> v.text # <<>>
      [] OTHER -> TRUE

\* the names declared at the top level of utils/validators.js
ValidatorsScope ==
    {"EMAIL_REGEX", "PASSWORD_REGEX", "NAME_REGEX", "USERNAME_REGEX",
     "PHONE_REGEX", "URL_REGEX", "DATE_REGEX", "HTML_TAGS_REGEX",
     "validateEmail", "validatePassword", "validateName", "sanitizeInput",
     "validateInput", "validateIdNumber", "validateSwiftCode", "validateIban",
     "validateCountryCode", "validateCurrency", "validateAmount",
     "sanitizeAndValidateInput", "validateUserData"}

\* module.exports of utils/validators.js
ValidatorsExports ==
    {"EMAIL_REGEX", "PASSWORD_REGEX", "NAME_REGEX", "USERNAME_REGEX",
     "PHONE_REGEX", "URL_REGEX", "DATE_REGEX", "validateEmail",
     "validatePassword", "validateName", "sanitizeInput", "validateUserData"}

ValidationFunctions ==
    {"validateEmail", "validatePassword", "validateName", "validateInput",
     "validateIdNumber", "validateSwiftCode", "validateIban",
     "validateCountryCode", "validateCurrency", "validateAmount",
     "validatePasswordStrength"}

\* the module a function is defined in
HomeOf(fn) ==
    IF fn = "validatePasswordStrength" THEN "utils/security"
    ELSE "utils/validators.js"

\* what each importing module destructures from require('../utils/validators')
Imports(module) ==
    CASE module = "middleware/validation.js" ->
           {"validateAmount", "validateCurrency", "validateSwiftCode",
            "validateIban", "validateCountryCode", "validateIdNumber",
            "validateInput"}
      [] module = "controllers/paymentController.js" -> {"validateSwiftCode"}
      [] module = "middleware/auth" -> {"sanitizeInput", "validatePassword"}
      [] OTHER -> {}

Callers ==
    {"utils/validators.js", "utils/security", "middleware/validation.js",
     "controllers/paymentController.js", "middleware/auth"}

Returned == [kind |-> "returned", error |-> "none"]
Threw(error) == [kind |-> "threw", error |-> error]
NoOutcome == [kind |-> "none", error |-> "none"]
NoCall == [fn |-> "none", arg |-> [t |-> "undefined", text |-> <<>>], caller |-> "none"]

\* reading an identifier that no scope declares throws a ReferenceError
ReadIdentifier(name) ==
    IF name \in ValidatorsScope THEN Returned ELSE Threw("ReferenceError")

\* the body of each function of utils/validators.js, as far as it decides
\* between returning and throwing
ValidatorBody(fn, v) ==
    CASE fn \in {"validateEmail", "validatePassword", "validateName"} ->
           \* if (typeof x !== 'string') return false; return REGEX.test(...)
           Returned
      [] fn = "validateInput" ->
           \* 112-113 return false; 116 reads patterns
           IF v.t # "string" THEN Returned ELSE ReadIdentifier("patterns")
      [] fn = "validateIdNumber" ->
           \* 126 return false unless a non-empty string; 129-150 on a string
           Returned
      [] fn = "validateSwiftCode" ->
           \* 157 return false; 159 sanitizeInput gives a non-string back;
           \* 162 RegExp.test converts its argument with String()
           Returned
      [] fn = "validateIban" ->
           \* 175 return false; 177 sanitizeInput gives a non-string back;
           \* 180 the test is on String(sanitized); 185 sanitized.substring
           IF ~Truthy(v) THEN Returned
           ELSE IF v.t = "string" THEN Returned
           ELSE IF ~IbanPattern(v.text) THEN Returned
           ELSE Threw("TypeError")
      [] fn = "validateCountryCode" ->
           \* 214 return false; 216 reads validCountryCodes
           IF ~Truthy(v) THEN Returned ELSE ReadIdentifier("validCountryCodes")
      [] fn = "validateCurrency" ->
           \* 223 return false; 225 reads supportedCurrencies
           IF ~Truthy(v) THEN Returned ELSE ReadIdentifier("supportedCurrencies")
      [] fn = "validateAmount" ->
           \* 232 return false; 234 amount.toString(); 238-244 parseFloat
           Returned

\* validatePasswordStrength: password.length is read first
PasswordStrengthBody(v) ==
    IF v.t \in {"null", "undefined"} THEN Threw("TypeError") ELSE Returned

\* a call from the defining module runs the body; a call from an importing
\* module calls what the destructuring of module.exports gave it
CallOutcome(fn, v, caller) ==
    IF fn = "validatePasswordStrength" THEN PasswordStrengthBody(v)
    ELSE IF caller # HomeOf(fn) /\ fn \notin ValidatorsExports
         THEN Threw("TypeError")
    ELSE ValidatorBody(fn, v)

Call(fn, v, caller) ==
    /\ caller = HomeOf(fn) \/ fn \in Imports(caller)
    /\ call' = [fn |-> fn, arg |-> v, caller |-> caller]
    /\ outcome' = CallOutcome(fn, v, caller)
    /\ UNCHANGED nonCallVars

----------------------------------------------------------------------------
(* Password acceptance: registrationSchema of routes/auth.js,               *)
(* validatePassword of utils/validators.js (used by the registration        *)
(* middleware and validateUserData) and validatePasswordStrength of the     *)
(* security utilities.                                                      *)

MaxPasswordLength == 14

PASSWORD_MIN_LENGTH == 12

\* [!@#$%^&*()_+\-=[\]{};':"\\|,.<>/?]
SpecialChars ==
    {"!", "@", "#", "$", "%", "^", "&", "*", "(", ")", "_", "+", "-", "=",
     "[", "]", "{", "}", ";", "'", ":", "\"", "\\", "|", ",", ".", "<", ">",
     "/", "?"}

\* \w
IsWordChar(c) == IsUpper(c) \/ IsLower(c) \/ IsDigit(c) \/ c = "_"

HasChar(p, Class(_)) == \E i \in 1..Len(p) : Class(p[i])
IsSpecial(c) == c \in SpecialChars

\* word occurs in p, letters compared without case (the i flag)
ContainsFolded(p, word) ==
    \E i \in 1..Len(p) :
        /\ i + Len(word) - 1 <= Len(p)
        /\ SubSeq(ToLowerCaseAll(p), i, i + Len(word) - 1) = word

\* /(password|123|qwerty|admin|welcome|letmein)/i
CommonPatterns ==
    {<<"p", "a", "s", "s", "w", "o", "r", "d">>, <<"1", "2", "3">>,
     <<"q", "w", "e", "r", "t", "y">>, <<"a", "d", "m", "i", "n">>,
     <<"w", "e", "l", "c", "o", "m", "e">>,
     <<"l", "e", "t", "m", "e", "i", "n">>}

\* /(\w)\1{2,}/
HasTripledWordChar(p) ==
    \E i \in 1..Len(p) :
        /\ i + 2 <= Len(p)
        /\ IsWordChar(p[i])
        /\ p[i + 1] = p[i] /\ p[i + 2] = p[i]

\* Joi.string().min(8).pattern(/^(?=.*[a-z])(?=.*[A-Z])(?=.*\d)/).required()
RegistrationSchemaPassword(p) ==
    /\ Len(p) >= 8
    /\ HasChar(p, IsLower) /\ HasChar(p, IsUpper) /\ HasChar(p, IsDigit)

\* PASSWORD_REGEX.test(password)
ValidatePassword(p) ==
    /\ HasChar(p, IsLower) /\ HasChar(p, IsUpper) /\ HasChar(p, IsDigit)
    /\ HasChar(p, IsSpecial)
    /\ Len(p) >= 12

\* Object.values(requirements).every(Boolean)
ValidatePasswordStrength(p) ==
    /\ Len(p) >= PASSWORD_MIN_LENGTH
    /\ HasChar(p, IsUpper) /\ HasChar(p, IsLower) /\ HasChar(p, IsDigit)
    /\ HasChar(p, IsSpecial)
    /\ ~HasTripledWordChar(p)
    /\ \A word \in CommonPatterns : ~ContainsFolded(p, word)

PasswordPaths == {"registrationSchema", "validatePassword", "validatePasswordStrength"}

AcceptsPassword(path, p) ==
    CASE path = "registrationSchema" -> RegistrationSchemaPassword(p)
      [] path = "validatePassword" -> ValidatePassword(p)
      [] path = "validatePasswordStrength" -> ValidatePasswordStrength(p)

\* what a client types, a few characters at a time
Fragments ==
    {<<"P", "a", "s", "s">>, <<"w", "0", "r", "d">>, <<"1", "2", "3">>,
     <<"!", "!", "!">>, <<"X", "y", "7", "#">>,
     <<"q", "Z", "9", "$", "k", "L">>}

NotJudged == [path |-> "none", accepted |-> FALSE]

TypeFragment(f) ==
    /\ Len(candidate) + Len(f) <= MaxPasswordLength
    /\ candidate' = candidate \o f
    /\ judged' = NotJudged
    /\ UNCHANGED nonPasswordVars

ClearPassword ==
    /\ candidate # <<>>
    /\ candidate' = <<>>
    /\ judged' = NotJudged
    /\ UNCHANGED nonPasswordVars

SubmitPassword(path) ==
    /\ candidate # <<>>
    /\ judged' = [path |-> path, accepted |-> AcceptsPassword(path, candidate)]
    /\ UNCHANGED candidate
    /\ UNCHANGED nonPasswordVars

----------------------------------------------------------------------------
(* Route guards: router.use(authenticate) followed by authorize(...) on the *)
(* payment routes and the user routes.  An argument of authorize is a       *)
(* record [t, v]: a string, or an array of strings.                         *)

Roles == {"admin", "staff", "customer", "auditor"}

JsString(s) == [t |-> "string", v |-> {s}]
JsArray(elements) == [t |-> "array", v |-> elements]

\* the arguments each route passes to authorize
GuardArguments(route) ==
    CASE route = "POST /payments" -> <<JsArray({"customer"})>>
      [] route = "GET /payments" -> <<JsArray({"admin", "staff", "customer"})>>
      [] route = "GET /payments/:id" -> <<JsArray({"admin", "staff", "customer"})>>
      [] route = "PATCH /payments/:id/status" -> <<JsArray({"admin", "staff"})>>
      [] route = "GET /payments/stats/overview" -> <<JsArray({"admin"})>>
      [] route = "GET /users" -> <<JsString("admin")>>
      [] route = "DELETE /users/:id" -> <<JsString("admin")>>

GuardedRoutes ==
    {"POST /payments", "GET /payments", "GET /payments/:id",
     "PATCH /payments/:id/status", "GET /payments/stats/overview",
     "GET /users", "DELETE /users/:id"}

\* roles.includes(role): an element equal to the string role
Includes(roles, role) ==
    \E i \in 1..Len(roles) : roles[i] = JsString(role)

\* authorize(...roles): roles is the list of the arguments
Authorize(roles, user) ==
    IF ~user.exists THEN [status |-> 401, error |-> "Authentication required."]
    ELSE IF ~Includes(roles, user.role)
         THEN [status |-> 403,
               error |-> "You do not have permission to perform this action."]
    ELSE [status |-> 0, error |-> "next"]

\* authenticate, then authorize, then the handler
Guard(route, v) ==
    IF v.token = "none"
      THEN [status |-> 401, error |-> "Access denied. No token provided."]
    ELSE IF v.token = "expired"
      THEN [status |-> 401, error |-> "Session expired. Please log in again."]
    ELSE IF v.token = "invalid"
      THEN [status |-> 401, error |-> "Invalid token. Please log in again."]
    ELSE IF ~v.exists
      THEN [status |-> 401, error |-> "Invalid token. User not found."]
    ELSE IF ~v.isActive
      THEN [status |-> 403,
            error |-> "Account is deactivated. Please contact support."]
    ELSE IF v.locked
      THEN [status |-> 403,
            error |-> "Account is temporarily locked. Please try again later."]
    ELSE Authorize(GuardArguments(route), v)

Visitors ==
    [token : {"none", "expired", "invalid", "valid"}, exists : BOOLEAN,
     role : Roles, isActive : BOOLEAN, locked : BOOLEAN]

NoVisitor ==
    [token |-> "none", exists |-> FALSE, role |-> "customer",
     isActive |-> FALSE, locked |-> FALSE]

NoAccess == [route |-> "none", status |-> 0, error |-> "none"]

\* a client with some token, naming some User row, gets ready to send
Arrive(v) ==
    /\ visitor' = v
    /\ access' = NoAccess
    /\ UNCHANGED nonAccessVars

RouteRequest(route) ==
    /\ access' = [route |-> route] @@ Guard(route, visitor)
    /\ UNCHANGED visitor
    /\ UNCHANGED nonAccessVars

----------------------------------------------------------------------------
(* Payment listing: POST /, GET / and GET /:id of routes/payments.js over   *)
(* createPayment and getUserPayments of models/database.js.  req.user is    *)
(* the user the token names; a payment id is a fresh uuid.                  *)

MaxPayments == 3

Owners == {"userA", "userB"}
Amounts == {10, 99}

\* the ids a client may ask for: every id in use and one that is not
PaymentIds == 1..(MaxPayments + 1)

\* a query without the WHERE clause
OwnedByAnyone(row, userId) == TRUE

\* WHERE p.userId = ?
OwnedBy(row, userId) == row.userId = userId

Reverse(s) == [i \in 1..Len(s) |-> s[Len(s) + 1 - i]]

\* getUserPayments: JOIN users, WHERE p.userId = ?, ORDER BY p.createdAt DESC
UserPayments(table, userId) ==
    LET Selected(row) == row.userId \in Owners /\ OwnedBy(row, userId)
    IN  Reverse(SelectSeq(table, Selected))

\* the fields the routes copy into the response
ResponseFields(rows) ==
    [i \in 1..Len(rows) |-> [id |-> rows[i].id, amount |-> rows[i].amount]]

\* router.get('/')
ListAnswer(table, userId) ==
    [status |-> 200, body |-> ResponseFields(UserPayments(table, userId))]

\* router.get('/:id'): payments.find(p => p.id === req.params.id)
GetAnswer(table, userId, id) ==
    LET payments == UserPayments(table, userId)
        found == {i \in 1..Len(payments) : payments[i].id = id}
    IN  IF found = {} THEN [status |-> 404, body |-> <<>>]
        ELSE [status |-> 200,
              body |-> ResponseFields(
                         <<payments[CHOOSE i \in found : \A j \in found : i <= j]>>)]

NoListing ==
    [route |-> "none", user |-> "none", param |-> 0, status |-> 0, body |-> <<>>]

\* router.post('/'): a row with a fresh id and the requester as owner
SubmitPayment(user, amount) ==
    /\ Len(ledger) < MaxPayments
    /\ ledger' = Append(ledger, [id |-> Len(ledger) + 1, userId |-> user,
                                 amount |-> amount])
    /\ listing' = NoListing
    /\ UNCHANGED nonLedgerVars

ListPayments(user) ==
    /\ listing' = [route |-> "GET /payments", user |-> user, param |-> 0]
                     @@ ListAnswer(ledger, user)
    /\ UNCHANGED ledger
    /\ UNCHANGED nonLedgerVars

GetPaymentById(user, id) ==
    /\ listing' = [route |-> "GET /payments/:id", user |-> user, param |-> id]
                     @@ GetAnswer(ledger, user, id)
    /\ UNCHANGED ledger
    /\ UNCHANGED nonLedgerVars

----------------------------------------------------------------------------
(* Reference numbers: the beforeCreate hook of the Sequelize Payment model  *)
(* and the unique constraint on referenceNumber.  Payment.create runs the   *)
(* hook, then awaits the INSERT.                                            *)

MaxMillis == 2
MaxStored == 3

NoReference == [from |-> "none", n |-> 0]

\* what a caller may pass as referenceNumber: nothing, or its own value
GivenReferences == {NoReference, [from |-> "caller", n |-> 1]}

\* if (!p.referenceNumber) p.referenceNumber = `PAY-${Date.now()}`
BeforeCreateReference(given) ==
    IF given = NoReference THEN [from |-> "PAY-", n |-> millis] ELSE given

\* referenceNumber: { unique: true }
UniqueViolation(ref) == \E i \in 1..Len(stored) : stored[i] = ref

NotCreated == [ref |-> NoReference, result |-> "none"]

\* Payment.create(...) up to the await of the INSERT
BeginCreate(p, given) ==
    /\ creating[p] = NoReference
    /\ Len(stored) < MaxStored
    /\ creating' = [creating EXCEPT ![p] = BeforeCreateReference(given)]
    /\ UNCHANGED <<millis, stored, created>>
    /\ UNCHANGED nonReferenceVars

\* the INSERT: rejected when the reference number is already stored
Insert(p) ==
    /\ creating[p] # NoReference
    /\ IF UniqueViolation(creating[p])
       THEN /\ created' = [ref |-> creating[p],
                           result |-> "SequelizeUniqueConstraintError"]
            /\ UNCHANGED stored
       ELSE /\ created' = [ref |-> creating[p], result |-> "persisted"]
            /\ stored' = Append(stored, creating[p])
    /\ creating' = [creating EXCEPT ![p] = NoReference]
    /\ UNCHANGED millis
    /\ UNCHANGED nonReferenceVars

\* a millisecond passes
TickMillis ==
    /\ millis < MaxMillis
    /\ millis' = millis + 1
    /\ UNCHANGED <<stored, creating, created>>
    /\ UNCHANGED nonReferenceVars

----------------------------------------------------------------------------
(* Secrets of a deployment: what each module does when JWT_SECRET or        *)
(* ENCRYPTION_KEY is not in the environment.                                *)

NodeEnvs == {Unset, "development", "test", "production"}

Deployments == [nodeEnv : NodeEnvs, jwtSecret : Secrets, encryptionKey : Secrets]

NotDeployed == [nodeEnv |-> Unset, jwtSecret |-> Unset, encryptionKey |-> Unset]

\* process.env.JWT_SECRET || 'your-secret-key-change-in-production'
RouteJwtSecret(env) ==
    IF env = Unset THEN "your-secret-key-change-in-production" ELSE env

\* the modules that sign or verify tokens
TokenModules == {"routes/auth.js", "controllers/paymentController.js", "middleware/auth"}

SecretUse(op, module, key, fallback, raised) ==
    [op |-> op, module |-> module, key |-> key, fallback |-> fallback,
     raised |-> raised]

NoSecretUse == SecretUse("none", "none", Unset, FALSE, "none")

\* jwt.sign / jwt.verify as each module calls them
TokenSecretUse(op, module, env) ==
    IF module = "routes/auth.js"
    THEN SecretUse(op, module, RouteJwtSecret(env.jwtSecret),
                   env.jwtSecret = Unset, "none")
    ELSE \* process.env.JWT_SECRET is passed as it is: jsonwebtoken throws
         \* when it is undefined
         IF env.jwtSecret = Unset
         THEN SecretUse(op, module, Unset, FALSE, "error")
         ELSE SecretUse(op, module, env.jwtSecret, FALSE, "none")

\* encrypt / decrypt of the three cipher modules
FieldSecretUse(op, module, env) ==
    SecretUse(op, module, EncryptionKey(module, env.encryptionKey),
              env.encryptionKey = Unset, "none")

\* the server starts with some environment
Deploy(env) ==
    /\ deployment' = env
    /\ secretUse' = NoSecretUse
    /\ UNCHANGED nonDeployVars

UseTokenSecret(op, module) ==
    /\ module = "middleware/auth" => op = "verify"
    /\ module = "controllers/paymentController.js" => op = "sign"
    /\ secretUse' = TokenSecretUse(op, module, deployment)
    /\ UNCHANGED deployment
    /\ UNCHANGED nonDeployVars

UseFieldSecret(op, module) ==
    /\ secretUse' = FieldSecretUse(op, module, deployment)
    /\ UNCHANGED deployment
    /\ UNCHANGED nonDeployVars

----------------------------------------------------------------------------
(* User administration: updateUser of controllers/userController.js behind  *)
(* router.put('/:id') of routes/userRoutes.js.  The handler is split at its *)
(* awaits; req.user is the row authenticate loaded when the request came.   *)

PersonIds == {"u1", "u2"}
UnknownId == "u9"
Undefined == "undefined"

SeededPeople ==
    [u \in PersonIds |->
        IF u = "u1"
        THEN [role |-> "admin", isActive |-> TRUE, email |-> "e1", firstName |-> "n0"]
        ELSE [role |-> "staff", isActive |-> TRUE, email |-> "e2", firstName |-> "n0"]]

Body(firstName, email, role, isActive) ==
    [firstName |-> firstName, email |-> email, role |-> role, isActive |-> isActive]

\* req.body: a field is absent (undefined) or has a value
Bodies ==
    {Body("n1", Undefined, Undefined, Undefined),
     Body(Undefined, "e3", Undefined, Undefined),
     Body(Undefined, Undefined, "admin", Undefined),
     Body(Undefined, Undefined, Undefined, "false")}

NoBody == Body(Undefined, Undefined, Undefined, Undefined)

NoUpdate ==
    [pc |-> "idle", user |-> [id |-> "none", role |-> "none"], target |-> "none",
     body |-> NoBody, data |-> NoBody, status |-> 0]

\* a role check that takes every role but 'customer' for an administrator
IsNotCustomer(user) == user.role # "customer"

\* req.user.role === 'admin'
IsAdmin(user) == user.role = "admin"

\* the request ends: only who asked, for whom, and the answer are kept
Answer(u, status) ==
    [pc |-> "idle", user |-> u.user, target |-> u.target, body |-> NoBody,
     data |-> NoBody, status |-> status]

\* if (isAdmin) { if (role) ...; if (isActive !== undefined) ... }
WithAdminFields(u, data) ==
    IF IsAdmin(u.user)
    THEN [data EXCEPT !.role = u.body.role, !.isActive = u.body.isActive]
    ELSE data

\* authenticate has loaded req.user: an active user sends PUT /:id
StartUpdate(p, requester, target, body) ==
    /\ upd[p].pc = "idle"
    /\ people[requester].isActive
    /\ upd' = [upd EXCEPT ![p] =
                 [pc |-> "find",
                  user |-> [id |-> requester, role |-> people[requester].role],
                  target |-> target, body |-> body, data |-> NoBody, status |-> 0]]
    /\ UNCHANGED people
    /\ UNCHANGED nonPeopleVars

\* after await User.findByPk(id): the permission checks, the names, and the
\* decision whether the e-mail has to be looked up
FindTarget(p) ==
    LET u == upd[p]
        isAdmin == IsAdmin(u.user)
        isSelf == u.user.id = u.target
        named == [NoBody EXCEPT !.firstName = u.body.firstName]
    IN  /\ u.pc = "find"
        /\ upd' = [upd EXCEPT ![p] =
              IF u.target \notin PersonIds THEN Answer(u, 404)
              ELSE IF ~isAdmin /\ ~isSelf THEN Answer(u, 403)
              ELSE IF ~isAdmin /\ (u.body.role # Undefined
                                     \/ u.body.isActive # Undefined)
                   THEN Answer(u, 403)
              ELSE IF u.body.email # Undefined
                        /\ u.body.email # people[u.target].email
                   THEN [u EXCEPT !.pc = "findEmail", !.data = named]
              ELSE [u EXCEPT !.pc = "update", !.data = WithAdminFields(u, named)]]
        /\ UNCHANGED people
        /\ UNCHANGED nonPeopleVars

\* after await User.findOne({ where: { email } })
FindEmail(p) ==
    LET u == upd[p]
    IN  /\ u.pc = "findEmail"
        /\ upd' = [upd EXCEPT ![p] =
              IF \E other \in PersonIds : people[other].email = u.body.email
              THEN Answer(u, 400)
              ELSE [u EXCEPT !.pc = "update",
                             !.data = WithAdminFields(u,
                                         [u.data EXCEPT !.email = u.body.email])]]
        /\ UNCHANGED people
        /\ UNCHANGED nonPeopleVars

\* user.update(updateData): only the fields of updateData are written
Written(row, data) ==
    [role |-> IF data.role = Undefined THEN row.role ELSE data.role,
     isActive |-> IF data.isActive = Undefined THEN row.isActive
                  ELSE data.isActive = "true",
     email |-> IF data.email = Undefined THEN row.email ELSE data.email,
     firstName |-> IF data.firstName = Undefined THEN row.firstName
                   ELSE data.firstName]

\* await user.update(updateData), then the answer
WriteUpdate(p) ==
    LET u == upd[p]
    IN  /\ u.pc = "update"
        /\ people' = [people EXCEPT ![u.target] = Written(@, u.data)]
        /\ upd' = [upd EXCEPT ![p] = Answer(u, 200)]
        /\ UNCHANGED nonPeopleVars

----------------------------------------------------------------------------
(* Specifications *)

Init ==
    /\ now = 0
    /\ acct = NoAccount
    /\ pc = [p \in Procs |-> "idle"]
    /\ loc = [p \in Procs |-> NoLocals]
    /\ resp = [p \in Procs |-> NoResp]
    /\ usr = NoUser
    /\ origin = NoOrigin
    /\ upc = [p \in Procs |-> "idle"]
    /\ uloc = [p \in Procs |-> NoInstance]
    /\ routeResp = NoResp
    /\ secret = Unloaded
    /\ plain = JsNull
    /\ producer = NoModule
    /\ issued = JsNull
    /\ envelope = JsNull
    /\ edits = 0
    /\ reader = NoModule
    /\ result = JsNull
    /\ dbUser = NoDbUser
    /\ dbPayment = NoDbPayment
    /\ ormUser = NoOrmUser
    /\ ormPayment = NoOrmPayment
    /\ handed = NothingHanded
    /\ authReq = NoRequest
    /\ authResp = NoAuthResp
    /\ base = <<>>
    /\ typed = <<>>
    /\ altered = "no"
    /\ appended = 0
    /\ verdict = NoVerdict
    /\ cleaned = NoSanitized
    /\ call = NoCall
    /\ outcome = NoOutcome
    /\ candidate = <<>>
    /\ judged = NotJudged
    /\ visitor = NoVisitor
    /\ access = NoAccess
    /\ ledger = <<>>
    /\ listing = NoListing
    /\ millis = 0
    /\ stored = <<>>
    /\ creating = [p \in Procs |-> NoReference]
    /\ created = NotCreated
    /\ deployment = NotDeployed
    /\ secretUse = NoSecretUse
    /\ people = SeededPeople
    /\ upd = [p \in Procs |-> NoUpdate]

\* the controller generation, requests interleaved at their awaits
Next ==
    \/ \E pw \in Passwords, salt \in Salts : CreateAdminUser(pw, salt)
    \/ \E p \in Procs, pw \in Passwords : LoginFind(p, pw)
    \/ \E p \in Procs, fault \in BOOLEAN : LoginVerifyThrows(p, fault)
    \/ \E p \in Procs : LoginFail(p)
    \/ \E p \in Procs : LoginLock(p)
    \/ \E p \in Procs : LoginReset(p)
    \/ \E p \in Procs : LoginFinish(p)
    \/ \E d \in TickMinutes : Tick(d)

Spec == Init /\ [][Next]_vars

\* the User.js generation, calls interleaved at their awaits
UserNext ==
    \/ \E pw \in Passwords, s1 \in Salts, s2 \in Salts : ModelCreate(pw, s1, s2)
    \/ \E pw \in Passwords, salt \in Salts : RouteRegister(pw, salt)
    \/ \E pw \in Passwords, accountOk \in BOOLEAN, fault \in BOOLEAN :
          RouteLogin(pw, accountOk, fault)
    \/ \E p \in Procs : IncrementFind(p)
    \/ \E p \in Procs : IncrementSave(p)
    \/ ResetLoginAttempts
    \/ \E d \in TickMinutes : Tick(d)

UserSpec == Init /\ [][UserNext]_vars

\* the controller generation, requests executed one after another
SeqNext ==
    \/ \E pw \in Passwords, salt \in Salts : AllIdle /\ CreateAdminUser(pw, salt)
    \/ \E p \in Procs, pw \in Passwords : AllIdle /\ LoginFind(p, pw)
    \/ \E p \in Procs, fault \in BOOLEAN : LoginVerifyThrows(p, fault)
    \/ \E p \in Procs : LoginFail(p)
    \/ \E p \in Procs : LoginLock(p)
    \/ \E p \in Procs : LoginReset(p)
    \/ \E p \in Procs : LoginFinish(p)
    \/ \E d \in TickMinutes : Tick(d)

SeqSpec == Init /\ [][SeqNext]_vars

\* the User.js generation, calls executed one after another
UserSeqNext ==
    \/ \E pw \in Passwords, s1 \in Salts, s2 \in Salts :
          AllIdle /\ ModelCreate(pw, s1, s2)
    \/ \E pw \in Passwords, salt \in Salts : AllIdle /\ RouteRegister(pw, salt)
    \/ \E pw \in Passwords, accountOk \in BOOLEAN, fault \in BOOLEAN :
          AllIdle /\ RouteLogin(pw, accountOk, fault)
    \/ \E p \in Procs : AllIdle /\ IncrementFind(p)
    \/ \E p \in Procs : IncrementSave(p)
    \/ AllIdle /\ ResetLoginAttempts
    \/ \E d \in TickMinutes : Tick(d)

UserSeqSpec == Init /\ [][UserSeqNext]_vars

\* the field cipher: values are encrypted, altered at rest and decrypted
CipherNext ==
    \/ \E env \in Secrets : LoadModules(env)
    \/ \E m \in Modules, x \in Plaintexts, iv \in IVs : CallEncrypt(m, x, iv)
    \/ \E v \in Alterations(envelope) : Alter(v)
    \/ \E m \in Modules : CallDecrypt(m)

CipherSpec == Init /\ [][CipherNext]_vars

\* registrations, payment creations, payment updates and reads
StoreNext ==
    \/ \E env \in Secrets : LoadModules(env)
    \/ \E n \in FullNames, i \in IdNumbers, a \in AccountNumbers,
          iv1 \in IVs, iv2 \in IVs, iv3 \in IVs : Register(n, i, a, iv1, iv2, iv3)
    \/ \E a \in AccountNumbers, s \in SwiftCodes, n \in FullNames,
          iv1 \in IVs, iv2 \in IVs, iv3 \in IVs : PostPayment(a, s, n, iv1, iv2, iv3)
    \/ \E n \in FullNames, i \in IdNumbers, a \in AccountNumbers :
          OrmUserCreate(n, i, a)
    \/ \E n \in FullNames, a \in AccountNumbers, s \in SwiftCodes,
          iv1 \in IVs, iv2 \in IVs : OrmPaymentCreate(n, a, s, iv1, iv2)
    \/ \E values \in UpdateValues, iv1 \in IVs, iv2 \in IVs :
          OrmPaymentUpdate(values, iv1, iv2)
    \/ \E by \in {"findUserByUsername", "findUserById"} : FindUser(by)
    \/ GetUserPayments

StoreSpec == Init /\ [][StoreNext]_vars

\* accounts are created, time passes and requests carrying tokens arrive
TokenNext ==
    \/ \E pw \in Passwords, salt \in Salts : CreateAdminUser(pw, salt)
    \/ \E pw \in Passwords, salt \in Salts : RouteRegister(pw, salt)
    \/ \E entry \in EntryPoints, header \in PresentableTokens(now) \cup {NoToken},
          token \in PresentableTokens(now) \cup {NoToken} :
          Request(entry, header, SetTokenCookie(token))
    \/ \E d \in TickMinutes : Tick(d)

TokenSpec == Init /\ [][TokenNext]_vars

\* strings are picked, altered or extended, and handed to the validators
ValidatorNext ==
    \/ \E s \in Samples : Start(s)
    \/ \E i \in 1..Len(typed), c \in Alphabet : AlterChar(i, c)
    \/ \E c \in TypedChars : TypeChar(c)
    \/ IncrementLastDigit
    \/ \E type \in SanitizedTypes : CallSanitizeInput(type)
    \/ CallValidateIdNumber
    \/ CallValidateSwiftCode
    \/ CallValidateIban

ValidatorSpec == Init /\ [][ValidatorNext]_vars

\* calls of the validation functions with arbitrary values
CallNext ==
    \E fn \in ValidationFunctions, v \in JsValues, caller \in Callers :
        Call(fn, v, caller)

CallSpec == Init /\ [][CallNext]_vars

\* passwords typed and submitted to the three password checks
PasswordNext ==
    \/ \E f \in Fragments : TypeFragment(f)
    \/ ClearPassword
    \/ \E path \in PasswordPaths : SubmitPassword(path)

PasswordSpec == Init /\ [][PasswordNext]_vars

\* requests to the guarded routes
AccessNext ==
    \/ \E v \in Visitors : Arrive(v)
    \/ \E route \in GuardedRoutes : RouteRequest(route)

AccessSpec == Init /\ [][AccessNext]_vars

\* payments created and read back by two users
LedgerNext ==
    \/ \E user \in Owners, amount \in Amounts : SubmitPayment(user, amount)
    \/ \E user \in Owners : ListPayments(user)
    \/ \E user \in Owners, id \in PaymentIds : GetPaymentById(user, id)

LedgerSpec == Init /\ [][LedgerNext]_vars

\* Payment.create calls, interleaved at the await of the INSERT
ReferenceNext ==
    \/ \E p \in Procs, given \in GivenReferences : BeginCreate(p, given)
    \/ \E p \in Procs : Insert(p)
    \/ TickMillis

ReferenceSpec == Init /\ [][ReferenceNext]_vars

\* deployments and the operations that need a secret
DeployNext ==
    \/ \E env \in Deployments : Deploy(env)
    \/ \E op \in {"sign", "verify"}, module \in TokenModules :
          UseTokenSecret(op, module)
    \/ \E op \in {"encrypt", "decrypt"}, module \in Modules :
          UseFieldSecret(op, module)

DeploySpec == Init /\ [][DeployNext]_vars

\* updateUser requests, interleaved at their awaits
PeopleNext ==
    \/ \E p \in Procs, requester \in PersonIds,
          target \in PersonIds \cup {UnknownId}, body \in Bodies :
          StartUpdate(p, requester, target, body)
    \/ \E p \in Procs : FindTarget(p)
    \/ \E p \in Procs : FindEmail(p)
    \/ \E p \in Procs : WriteUpdate(p)

PeopleSpec == Init /\ [][PeopleNext]_vars

----------------------------------------------------------------------------
(* Properties *)

IncrementCompletes(p) == upc[p] = "save" /\ upc'[p] = "idle"

Verdict(b) == IF b THEN "true" ELSE "false"

\* C1: a failed password check adds one to the counter, and the check that
\* brings it to 5 sets the lock-expiry to now + 30 minutes and the counter to
\* 0 instead; stated for incrementLoginAttempts run one call after another.
C1_FailedCheckCountsAndLocks ==
    [][\A p \in Procs : IncrementCompletes(p) =>
          IF usr.loginAttempts + 1 >= LOCK_THRESHOLD
            THEN /\ usr'.loginAttempts = 0
                 /\ usr'.lockUntil = now + LOGIN_LOCK_MINUTES
            ELSE /\ usr'.loginAttempts = usr.loginAttempts + 1
                 /\ usr'.lockUntil = usr.lockUntil]_vars

\* C2: no lost updates: every completing incrementLoginAttempts call leaves
\* the persisted counter one above the value persisted just before it, under
\* every interleaving of the calls.
C2_NoLostIncrement ==
    [][\A p \in Procs : IncrementCompletes(p) =>
          usr'.loginAttempts = usr.loginAttempts + 1]_vars

\* C3: the lockout update is atomic: in every persisted state the counter is
\* below 5 whenever the account is not locked, and the lock-expiry is never
\* set while the counter is still un-reset.
C3_LockoutAtomic ==
    acct.exists =>
      /\ ~AccountLocked(acct, now) => acct.failedLoginAttempts < LOCK_THRESHOLD
      /\ AccountLocked(acct, now) => acct.failedLoginAttempts = 0

C6_LockUntilNullOrFuture ==
    acct.accountLockedUntil = Null \/ acct.accountLockedUntil > now

\* C6 amended: every write of the lock-expiry stores null or a timestamp that
\* is in the future at the time of the write, 30 minutes ahead at most; it is
\* not cleared when the window elapses, and an elapsed lock-expiry counts as
\* unlocked.  The lock-expiry incrementLoginAttempts computes is in the
\* future of the time it is computed at as well.
C6_LockUntilWrittenNullOrFuture ==
    [][/\ acct'.accountLockedUntil # acct.accountLockedUntil =>
             \/ acct'.accountLockedUntil = Null
             \/ /\ acct'.accountLockedUntil > now'
                /\ acct'.accountLockedUntil <= now' + LOGIN_LOCK_MINUTES
                /\ AccountLocked(acct', now')
       /\ /\ IncrementLockUntil(now) > now
          /\ IncrementLockUntil(now) <= now + LOGIN_LOCK_MINUTES]_vars

\* C6 witness: a lock-expiry that has elapsed and is still stored
C6_Witness ==
    /\ acct.accountLockedUntil # Null
    /\ acct.accountLockedUntil <= now
    /\ ~AccountLocked(acct, now)

\* C7: once the lock window has elapsed the account is unlocked with its
\* counter equal to 0; stated for incrementLoginAttempts with isLocked.
C7_UnlockedWithCounterZero ==
    [][(IsLocked(usr, now) /\ ~IsLocked(usr', now')) => usr'.loginAttempts = 0]_vars

\* C8: verify(password, hash(password)) is true and false for every other
\* password, for hashPassword/verifyPassword and for a user created through
\* the User model with verifyPassword.
C8_VerifyAcceptsExactlyOriginal ==
    /\ \A pw \in Passwords, other \in Passwords, salt \in GenSalt(SALT_ROUNDS) :
          VerifyPassword(other, HashPassword(pw, salt)) = Verdict(other = pw)
    /\ (usr.exists /\ origin.via = "model") =>
          \A other \in Passwords :
              VerifyPasswordModel(usr, other) = Verdict(other = origin.password)

\* C9: every stored password hash was produced with a bcrypt cost factor of
\* at least 12 rounds.
C9_CostAtLeastTwelve ==
    /\ usr.exists => HashCost(usr.passwordHash) >= REQUIRED_SALT_ROUNDS
    /\ acct.exists => HashCost(acct.password) >= REQUIRED_SALT_ROUNDS

\* rows POST /login can be handed, the one without a digest included
SampleRows ==
    UNION {{[NoUser EXCEPT !.exists = TRUE, !.salt = s, !.passwordHash = h] :
               h \in {BcryptHash(pw, s) : pw \in Passwords} \cup {Missing}} :
           s \in Salts}

\* C10: a login during which password verification failed with an error
\* answers 500 without a token, and a token is only issued after the check
\* returned true; the same for POST /login on every row, and verifyPassword
\* of the utilities and of the model report an error for a missing digest or
\* salt instead of a verdict.
C10_VerifyErrorIsInternalError ==
    /\ \A p \in Procs : resp[p].isMatch = "error" =>
          resp[p].status = 500 /\ ~resp[p].token
    /\ \A p \in Procs : resp[p].token => resp[p].isMatch = "true"
    /\ \A row \in SampleRows, pw \in Passwords :
          /\ RouteLoginResponse(row, TRUE, pw, TRUE).status = 500
          /\ ~RouteLoginResponse(row, TRUE, pw, TRUE).token
          /\ row.passwordHash = Missing =>
                /\ RouteLoginResponse(row, TRUE, pw, FALSE).status = 500
                /\ ~RouteLoginResponse(row, TRUE, pw, FALSE).token
                /\ VerifyPassword(pw, row.passwordHash) = "error"
          /\ VerifyPasswordModel([row EXCEPT !.salt = NoSalt], pw) = "error"

\* C10 witness: a login request answered after its password check threw
C10_Witness ==
    \E p \in Procs : resp[p].isMatch = "error" /\ resp[p].status = 500

\* C11: for every plaintext string x, the empty string included, and for
\* each module, decrypt(encrypt(x)) of that module is x.
C11_RoundTrip ==
    (reader # NoModule /\ reader = producer /\ edits = 0) => result = plain

\* C12: decrypt returns null for every input that is not an untampered,
\* well-formed envelope: a flipped byte in any part, fewer or more than three
\* parts, a part that is not hex, or a value that is not a string.
C12_OnlyUntamperedEnvelopesOpen ==
    (reader # NoModule /\ envelope # issued) => result = JsNull

\* C13: all modules of one deployment derive the same key and use the same
\* AAD, so what one module's encrypt returned is opened by every other
\* module's decrypt exactly as by the module's own.
C13_ModulesInterchangeable ==
    (reader # NoModule /\ reader # producer /\ edits = 0 /\ issued # JsNull)
        => /\ GetKey(reader, secret) = GetKey(producer, secret)
           /\ AAD(reader) = AAD(producer)
           /\ result = Decrypt(producer, secret, envelope)

IsEnvelope(v) ==
    /\ v.t = "string" /\ Len(v.s) = 3
    /\ v.s[1].kind = "iv" /\ v.s[2].kind = "tag" /\ v.s[3].kind = "data"

\* C14: on every persistence path (raw SQLite functions, Sequelize User and
\* Payment models) the persisted full name, ID number, account number,
\* beneficiary name, beneficiary account and SWIFT code are ciphertext
\* envelopes, never the submitted plaintext.
C14_SensitiveFieldsStoredEncrypted ==
    /\ dbUser.exists => /\ IsEnvelope(dbUser.fullName)
                        /\ IsEnvelope(dbUser.idNumber)
                        /\ IsEnvelope(dbUser.accountNumber)
    /\ dbPayment.exists => /\ IsEnvelope(dbPayment.beneficiaryName)
                           /\ IsEnvelope(dbPayment.beneficiaryAccountNumber)
                           /\ IsEnvelope(dbPayment.beneficiarySwiftCode)
    /\ ormUser.exists => /\ IsEnvelope(ormUser.fullName)
                         /\ IsEnvelope(ormUser.idNumber)
                         /\ IsEnvelope(ormUser.accountNumber)
    /\ ormPayment.exists => /\ IsEnvelope(ormPayment.beneficiaryName)
                            /\ IsEnvelope(ormPayment.beneficiaryAccount)
                            /\ IsEnvelope(ormPayment.swiftCode)

\* C15: every sensitive value findUserByUsername, findUserById and
\* getUserPayments hand to their caller, the joined userName included, is the
\* decrypted plaintext of the stored value and never the stored envelope.
C15_SensitiveFieldsHandedDecrypted ==
    /\ handed.by \in {"findUserByUsername", "findUserById"} =>
          /\ handed.fullName = DbDecrypt(dbUser.fullName)
          /\ handed.idNumber = DbDecrypt(dbUser.idNumber)
          /\ handed.accountNumber = DbDecrypt(dbUser.accountNumber)
    /\ handed.by = "getUserPayments" =>
          /\ handed.beneficiaryName = DbDecrypt(dbPayment.beneficiaryName)
          /\ handed.beneficiaryAccountNumber =
                DbDecrypt(dbPayment.beneficiaryAccountNumber)
          /\ handed.beneficiarySwiftCode = DbDecrypt(dbPayment.beneficiarySwiftCode)
          /\ handed.userName = DbDecrypt(dbUser.fullName)
          /\ ~IsEnvelope(handed.userName)

Expired(token, t) == JwtVerify(token, JWT_SECRET, t) = "TokenExpiredError"

Invalid(token, t) == JwtVerify(token, JWT_SECRET, t) = "JsonWebTokenError"

\* C16: on every verification entry point (authenticate, /verify, the global
\* error handler) an expired token and a malformed or wrongly signed token
\* produce different error outcomes.
C16_ExpiredDistinctFromInvalid ==
    (authReq.entry # "none" /\ Expired(authReq.header, now)) =>
        \A bad \in {tk \in PresentableTokens(now) : Invalid(tk, now)} :
            authResp # Respond([authReq EXCEPT !.header = bad], now)

\* C17: a request with a valid, unexpired token only in the 'token' cookie
\* (no Authorization header) is authenticated as the token's user, exactly
\* like the request carrying the same token as a Bearer header.
C17_CookieAuthenticatesLikeBearer ==
    (/\ authReq.entry = "authenticate"
     /\ authReq.header = NoToken
     /\ JwtVerify(authReq.cookie.value, JWT_SECRET, now) = "ok"
     /\ acct.exists /\ ~AccountLocked(acct, now))
        => /\ authResp = Respond([authReq EXCEPT !.header = authReq.cookie.value,
                                                 !.cookie = NoCookie], now)
           /\ authResp.user = authReq.cookie.value.sub

\* C18: on unlocked state, the login response for an unknown account and the
\* one for an existing account with a wrong password have the same status
\* code and the same body, in both login handlers.
C18_FailedLoginResponsesIdentical ==
    [][/\ \A p \in Procs :
            LoginFail(p) => LoginWrongPassword(loc[p].user) = LoginUnknownAccount
       /\ RouteWrongPassword = RouteUnknownAccount]_vars

\* C19: validateSwiftCode(s) is true exactly when the input string s itself
\* matches ^[A-Z]{6}[A-Z0-9]{2}([A-Z0-9]{3})?$, so lowercase and wrong-length
\* input is rejected.
C19_SwiftAcceptsExactlyThePattern ==
    verdict.fn = "validateSwiftCode" => verdict.accepted = SwiftPattern(typed)

IbanExample ==
    <<"G", "B", "8", "2", "W", "E", "S", "T", "1", "2", "3", "4", "5", "6",
      "9", "8", "7", "6", "5", "4", "3", "2">>

\* A-Z stand for 10-35, a digit for itself
IbanValue(c) == IF IsDigit(c) THEN DigitValue(c) ELSE 9 + IndexIn(UpperCase, c)

\* the remainder modulo 97 of the number a rearranged IBAN stands for: a
\* letter shifts the number by two decimal places, a digit by one
WholeRemainder(s) ==
    LET whole[i \in 0..Len(s)] ==
            IF i = 0 THEN 0
            ELSE CHOOSE r \in
                   {(before * (IF IsDigit(s[i]) THEN 10 ELSE 100)
                       + IbanValue(s[i])) % 97 : before \in {whole[i - 1]}} : TRUE
    IN  whole[Len(s)]

\* the format and the checksum of the claim, for a string as it stands
IbanFormatAndChecksum(s) ==
    IbanPattern(s) /\ WholeRemainder(Rearranged(s)) = 1

\* C20 as stated: validateIban accepts a string exactly when the string
\* matches the IBAN format and the rearranged number is 1 modulo 97.
C20_IbanAcceptsExactlyFormatAndChecksum ==
    verdict.fn = "validateIban" =>
        verdict.accepted = IbanFormatAndChecksum(typed)

\* C20: validateIban accepts a string exactly when its sanitized form
\* (escaped, trimmed, upper-cased, whitespace removed) matches the IBAN format
\* and the rearranged number is 1 modulo 97; the digit-by-digit remainder is
\* the remainder of the whole number for every length up to 34; the example
\* GB82WEST12345698765432 passes and altering one digit of a valid IBAN fails.
C20_IbanAcceptsSanitizedFormatAndChecksum ==
    verdict.fn = "validateIban" =>
        \E sanitized \in {SanitizeInput(typed, "iban")} :
            /\ verdict.accepted = IbanFormatAndChecksum(sanitized)
            /\ IbanPattern(sanitized) =>
                  \E numeric \in {Numeric(Rearranged(sanitized))} :
                      /\ ParseInt(Mod97(numeric))
                            = WholeRemainder(Rearranged(sanitized))
                      /\ Len(numeric) <= 9 =>
                            ParseInt(Mod97(numeric)) = ParseInt(numeric) % 97
            /\ typed = IbanExample => verdict.accepted
            /\ (altered = "digit" /\ ValidateIban(base)) => ~verdict.accepted

C20_Witness ==
    /\ verdict.fn = "validateIban"
    /\ typed = IbanExample
    /\ verdict.accepted

\* the checksum of the first twelve digits: a digit at an even index from the
\* left (index 0 first) counts as its double with 9 taken off when above 9
IdChecksum(s) ==
    LET folded(d) == IF 2 * d > 9 THEN 2 * d - 9 ELSE 2 * d
        total == folded(DigitValue(s[1])) + DigitValue(s[2])
                   + folded(DigitValue(s[3])) + DigitValue(s[4])
                   + folded(DigitValue(s[5])) + DigitValue(s[6])
                   + folded(DigitValue(s[7])) + DigitValue(s[8])
                   + folded(DigitValue(s[9])) + DigitValue(s[10])
                   + folded(DigitValue(s[11])) + DigitValue(s[12])
    IN  (10 - (total % 10)) % 10

C22_ValidationFunctionsNeverThrow ==
    call.fn \in ValidationFunctions => outcome.kind = "returned"

\* the characters of s that are digits or letters
DigitsAndLetters(s) ==
    {s[i] : i \in {j \in 1..Len(s) : IsDigit(s[j]) \/ IsUpper(s[j]) \/ IsLower(s[j])}}

\* C23: sanitizeInput(x, 'accountNumber') is x without its non-digit
\* characters, sanitizeInput(x, 'swiftCode') is the upper-cased x without its
\* non-alphanumeric characters, sanitizeInput(x, 'email') is the lower-cased
\* escaped and trimmed x, and the account-number and SWIFT results hold no
\* digit or letter that x does not hold.
C23_SanitizeOnlyRemovesOrFoldsCase ==
    /\ cleaned.type = "accountNumber" =>
          /\ cleaned.out = SelectSeq(typed, IsDigit)
          /\ DigitsAndLetters(cleaned.out) \subseteq DigitsAndLetters(typed)
    /\ cleaned.type = "swiftCode" =>
          /\ cleaned.out = SelectSeq(ToUpperCaseAll(typed), IsAlphanumeric)
          /\ DigitsAndLetters(cleaned.out)
                \subseteq DigitsAndLetters(ToUpperCaseAll(typed))
    /\ cleaned.type = "email" =>
          cleaned.out = ToLowerCaseAll(Trim(Escape(typed)))

\* a character three times in a row
HasTripledChar(p) ==
    \E i \in 1..Len(p) :
        i + 2 <= Len(p) /\ p[i + 1] = p[i] /\ p[i + 2] = p[i]

\* C24: every password a registration or password-validation path accepts
\* has at least 12 characters, a lowercase letter, an uppercase letter, a
\* digit and a special character, no character three times in a row and no
\* common pattern such as 'password' or '123'.
C24_AcceptedPasswordsAreStrong ==
    judged.accepted =>
        /\ Len(candidate) >= 12
        /\ HasChar(candidate, IsLower) /\ HasChar(candidate, IsUpper)
        /\ HasChar(candidate, IsDigit) /\ HasChar(candidate, IsSpecial)
        /\ ~HasTripledChar(candidate)
        /\ ~ContainsFolded(candidate, <<"p", "a", "s", "s", "w", "o", "r", "d">>)
        /\ ~ContainsFolded(candidate, <<"1", "2", "3">>)

\* the visitor got through authenticate
Authenticated ==
    /\ visitor.token = "valid" /\ visitor.exists
    /\ visitor.isActive /\ ~visitor.locked

\* the roles the payment routes list
ListedRoles(route) ==
    CASE route = "POST /payments" -> {"customer"}
      [] route \in {"GET /payments", "GET /payments/:id"} ->
           {"admin", "staff", "customer"}
      [] route = "PATCH /payments/:id/status" -> {"admin", "staff"}

\* C27: on the payment routes an authenticated user passes authorize exactly
\* when the route lists the user's role, and is answered 403 otherwise.
C27_AuthorizeGrantsExactlyListedRoles ==
    (/\ Authenticated
     /\ access.route \in {"POST /payments", "GET /payments", "GET /payments/:id",
                           "PATCH /payments/:id/status"}) =>
        IF visitor.role \in ListedRoles(access.route)
        THEN access.error = "next"
        ELSE access.status = 403

\* the rows of the table that belong to one user
RowsOf(user) ==
    {ledger[i] : i \in {j \in 1..Len(ledger) : ledger[j].userId = user}}

\* the table as it would be without the payments of the other users
WithoutOthers(user) ==
    LET Own(row) == row.userId = user IN SelectSeq(ledger, Own)

\* C29: the answers of GET /payments and GET /payments/:id to a user hold
\* only payments that user owns, the id of another user's payment is answered
\* 404, and the answer is the one the user would get if the other users had
\* no payments at all.
C29_OnlyOwnPaymentsAreRead ==
    listing.route # "none" =>
        /\ \A i \in 1..Len(listing.body) :
              \E row \in RowsOf(listing.user) :
                  row.id = listing.body[i].id /\ row.amount = listing.body[i].amount
        /\ (/\ listing.route = "GET /payments/:id"
            /\ \E i \in 1..Len(ledger) :
                  ledger[i].id = listing.param /\ ledger[i].userId # listing.user)
              => listing.status = 404 /\ listing.body = <<>>
        /\ listing.route = "GET /payments" =>
              /\ Len(listing.body) = Cardinality(RowsOf(listing.user))
              /\ [status |-> listing.status, body |-> listing.body]
                    = ListAnswer(WithoutOthers(listing.user), listing.user)
        /\ listing.route = "GET /payments/:id" =>
              [status |-> listing.status, body |-> listing.body]
                = GetAnswer(WithoutOthers(listing.user), listing.user, listing.param)

C29_Witness ==
    /\ listing.route = "GET /payments/:id"
    /\ listing.user = "userA"
    /\ listing.status = 404
    /\ \E i \in 1..Len(ledger) :
          ledger[i].id = listing.param /\ ledger[i].userId = "userB"
    /\ \E i \in 1..Len(ledger) : ledger[i].userId = "userA"

C26_NoSilentFallbackInProduction ==
    (deployment.nodeEnv = "production" /\ secretUse.fallback) =>
        secretUse.raised # "none"

\* request p takes this step, and the user who sent it is not an admin
NonAdminStep(p) ==
    /\ upd'[p] # upd[p]
    /\ upd'[p].user.role # "admin"

\* C28: no step of an updateUser request sent by a non-admin changes the
\* role or isActive of any user; a non-admin request for another user's
\* record changes nothing at all and is answered 403.
C28_OnlyAdminsChangeRoleAndActivation ==
    [][\A p \in Procs :
         NonAdminStep(p) =>
            /\ \A u \in PersonIds :
                  /\ people'[u].role = people[u].role
                  /\ people'[u].isActive = people[u].isActive
            /\ (upd'[p].target \in PersonIds /\ upd'[p].target # upd'[p].user.id) =>
                  /\ people' = people
                  /\ upd'[p].pc = "idle" => upd'[p].status = 403]_vars

C28_Witness ==
    \E p \in Procs :
        /\ upd[p].pc = "idle" /\ upd[p].status = 403
        /\ upd[p].user.role = "staff"
        /\ upd[p].target \in PersonIds /\ upd[p].target # upd[p].user.id
        /\ people # SeededPeople

====
